---- MODULE Spec2Model ----
(***************************************************************************)
(* Renfe-bot: the watch store (monitored_trains.json), the registration    *)
(* and deletion handlers of the Telegram bot, the periodic sweep that      *)
(* re-checks every stored trip, and the self-rescheduling job that drives  *)
(* it.  Source: src/telegram_bot.py, src/renfe_scrapper.py.                *)
(*                                                                         *)
(* Atomicity follows the code: the handlers and the job are coroutines of  *)
(* one asyncio loop, so a step runs from one await to the next; the two    *)
(* Store writers are additionally split at STORE_LOCK (acquire and load,   *)
(* then save and release) so that the lock is what makes them atomic.      *)
(***************************************************************************)
EXTENDS Integers, Sequences, FiniteSets, TLC

VARIABLES
    fileKind,   \* what monitored_trains.json holds: "missing", "garbage"
                \* (not JSON, e.g. a truncated write), "scalar" (JSON that is
                \* not iterable, e.g. null) or "list"
    file,       \* the list of records when fileKind = "list", else << >>
    lock,       \* STORE_LOCK: NoCaller, or the caller holding it
    crit,       \* per caller: the Store.add / Store.remove_ids call in flight
    convDelete, \* per chat: state of the /delete conversation of the user writing there
    del_ids,    \* per user: context.user_data["del_ids"]
    jobs,       \* number of pending "renfe_periodic_check" run_once jobs
    sweep,      \* per callback slot: the locals of _periodic_scheduler /
                \* _check_once_and_notify
    notified,   \* history: ids delivered an availability message since they
                \* were last written by Store.add
    rmFailed,   \* history: ids whose batch removal raised after delivery
    env,        \* what the scraper, Telegram and the disk do from now on:
                \* "any", or one of the regimes of LiveSpec
    conv,       \* per chat: state of the /m conversation, what it has put in
                \* context.user_data, and the last reply of its handlers
    check,      \* the last call of esta_lleno_en_hora: its arguments, what
                \* the search gave, and the dict it returned
    clock       \* seconds since the process started, the time the armed
                \* run_once job is due, and the time the last sweep ended

vars == <<fileKind, file, lock, crit, convDelete, del_ids, jobs, sweep,
          notified, rmFailed, env, conv, check, clock>>

---------------------------------------------------------------------------
(* Bounds of the model *)

\* callbacks of _periodic_scheduler that can be in flight at once
MaxSlots == 2

(* Program constants *)

\* MonitoredTrain.tolerancia_min as choose_train sets it
ToleranciaMin == 5

---------------------------------------------------------------------------
(* The universe the inputs are drawn from *)

Chats == {1, 2}

\* str(chat_id)
ChatStr(c) == IF c = 1 THEN "1" ELSE "2"

\* Station names are free text: a sequence of pieces
Origen == <<"Vigo U">>
Destino == <<"A Coruna">>
Fecha == "06/10/2025"
Vispera == "05/10/2025"
Salidas == <<"06:34", "08:00">>
Llegada == "10:00"

\* estado values of a scraped trip
Estados == {"OK", "LLENO"}

\* what one availability check of the sweep can give: the dict's "estado",
\* or "RAISED" when _task raised and _check_item returned (it, None)
CheckOutcomes == {"RAISED", "OK", "LLENO", "NO_ENCONTRADO"}

\* bot.send_message either returns or raises
SendOutcomes == {"sent", "error"}

\* Path.write_text either completes, raises before the file is opened for
\* writing (file untouched), or raises after open(..., "w") truncated it
SaveOutcomes == {"written", "failed_intact", "failed_truncated"}

Digits == {"0", "1", "2", "3", "4", "5", "6", "7", "8", "9"}

DigitVal(ch) ==
    CASE ch = "0" -> 0 [] ch = "1" -> 1 [] ch = "2" -> 2 [] ch = "3" -> 3
      [] ch = "4" -> 4 [] ch = "5" -> 5 [] ch = "6" -> 6 [] ch = "7" -> 7
      [] ch = "8" -> 8 [] ch = "9" -> 9 [] OTHER -> 0

\* message texts a user can answer with
Texts == {"x", "0", "1", "2", "3"}

IsNumber(text) == text \in {"0", "1", "2", "3"}

\* int(text)
IntOf(text) ==
    CASE text = "0" -> 0
      [] text = "1" -> 1
      [] text = "2" -> 2
      [] text = "3" -> 3
      [] OTHER -> 0

Viaje(salida, estado) == [salida |-> salida, llegada |-> Llegada, estado |-> estado]

\* the list of trips show_trains has left in user_data["viajes"]: one full
\* train and one with seats
ViajesLists ==
    { <<Viaje(Salidas[1], "LLENO"), Viaje(Salidas[2], "OK")>> }

Slots == 1..MaxSlots

Handler(c) == <<"handler", c>>
Job(s) == <<"job", s>>
Callers == {Handler(c) : c \in Chats} \cup {Job(s) : s \in Slots}
NoCaller == <<"none", 0>>

---------------------------------------------------------------------------
(* Records and ids *)

\* f"{chat_id}-{fecha}-{salida}-{origen}-{destino}"
MakeId(c, fecha, salida, origen, destino) ==
    <<ChatStr(c), "-", fecha, "-", salida, "-">> \o origen \o <<"-">> \o destino

\* asdict(MonitoredTrain(...)); added_at (a wall-clock stamp no code reads) is left out
MonitoredTrain(c, origen, destino, fecha, salida) ==
    [ id |-> MakeId(c, fecha, salida, origen, destino),
      chat_id |-> c,
      origen |-> origen,
      destino |-> destino,
      fecha |-> fecha,
      salida |-> salida,
      tolerancia_min |-> ToleranciaMin ]

AllItems ==
    { MonitoredTrain(c, Origen, Destino, Fecha, Salidas[i]) :
        c \in Chats, i \in 1..Len(Salidas) }

AllIds == { it.id : it \in AllItems }

RECURSIVE SeqToSet(_)
SeqToSet(s) == IF s = << >> THEN {} ELSE {Head(s)} \cup SeqToSet(Tail(s))

IdsOf(data) == { data[i].id : i \in 1..Len(data) }

---------------------------------------------------------------------------
(* Store *)

\* Store._load: [] when the file is missing or does not parse
Load == IF fileKind = "list" THEN file ELSE << >>

\* _load without `if not self.path.exists()` and without its `except`
LoadIsScalar_Uncaught == fileKind # "list"

\* json.loads gave a value the callers cannot iterate
LoadIsScalar == fileKind = "scalar"

StoredIds == IdsOf(Load)

\* Store.add without the filter on the id
AddTo_NoFilter(data, item) == Append(data, item)

\* [d for d in data if d.get("id") != item.id] + [asdict(item)]
AddTo(data, item) ==
    SelectSeq(data, LAMBDA d : d.id # item.id) \o <<item>>

\* the characters \b takes as not belonging to a word
NonWordChars == {"-", ":", "/", " "}

\* \b\d{2}:\d{2}\b matches the five characters of item_id from position i
HhMmAt(item_id, i) ==
    /\ i + 4 <= Len(item_id)
    /\ item_id[i] \in Digits /\ item_id[i + 1] \in Digits
    /\ item_id[i + 2] = ":"
    /\ item_id[i + 3] \in Digits /\ item_id[i + 4] \in Digits
    /\ (i = 1 \/ item_id[i - 1] \in NonWordChars)
    /\ (i + 4 = Len(item_id) \/ item_id[i + 5] \in NonWordChars)

\* _parse_salida_from_id: <<the first match>>, << >> for None
ParseSalidaFromId(item_id) ==
    IF \E i \in DOMAIN item_id : HhMmAt(item_id, i)
    THEN LET i == CHOOSE k \in DOMAIN item_id :
                     HhMmAt(item_id, k) /\ \A j \in 1..(k - 1) : ~HhMmAt(item_id, j)
         IN <<SubSeq(item_id, i, i + 4)>>
    ELSE << >>

\* d as _list_all_items hands it to MonitoredTrain(**d): a missing salida
\* is filled in from the id, with "00:00" when the id has no time
FillSalida(d) ==
    IF "salida" \in DOMAIN d THEN d
    ELSE [k \in DOMAIN d \cup {"salida"} |->
            IF k # "salida" THEN d[k]
            ELSE IF ParseSalidaFromId(d.id) # << >>
                 THEN ParseSalidaFromId(d.id)[1]
                 ELSE <<"0", "0", ":", "0", "0">>]

\* remove_ids had it saved the dicts as _list_all_items repairs them
RemoveFrom_Repaired(data, ids) ==
    SelectSeq([i \in DOMAIN data |-> FillSalida(data[i])],
              LAMBDA d : d.id \notin SeqToSet(ids))

\* remove_ids had it looked at the first id only
RemoveFrom_FirstId(data, ids) ==
    SelectSeq(data, LAMBDA d : ids = << >> \/ d.id # ids[1])

\* [d for d in data if d.get("id") not in ids_set]
RemoveFrom(data, ids) ==
    SelectSeq(data, LAMBDA d : d.id \notin SeqToSet(ids))

\* the Store methods without `with STORE_LOCK:`
StoreLockFree_NoLock == TRUE

\* `with STORE_LOCK:` can be entered
StoreLockFree == lock = NoCaller

\* A caller's Store call: op "add" / "rm" inside `with STORE_LOCK` after _load,
\* "added" / "removed" once the call returned and the handler awaits its
\* reply; data is the list the call loaded; removed is how many records the
\* call dropped from it (what remove_ids returns; for add, history only)
NoCall == [op |-> "none", data |-> << >>, item |-> << >>, ids |-> << >>, removed |-> 0]

\* Store._save(data) with the given outcome of write_text
Save(data, outcome) ==
    CASE outcome = "written" ->
            /\ fileKind' = "list"
            /\ file' = data
      [] outcome = "failed_intact" ->
            UNCHANGED <<fileKind, file>>
      [] outcome = "failed_truncated" ->
            /\ fileKind' = "garbage"
            /\ file' = << >>

---------------------------------------------------------------------------
(* Listing helpers of the bot *)

\* datetime.strptime(fecha, "%d/%m/%Y") as year*10000 + month*100 + day; 0 if it fails
Ymd(fecha) ==
    CASE fecha = "06/10/2025" -> 20251006
      [] fecha = "05/10/2025" -> 20251005
      [] OTHER -> 0

\* int(hh) * 100 + int(mm) of "HH:MM"; -1 if it fails
Hm(salida) ==
    CASE salida = "06:34" -> 634
      [] salida = "08:00" -> 800
      [] OTHER -> -1

\* parse_sort_key(a) <= parse_sort_key(b), tuples compared as Python does
KeyLeq(a, b) ==
    \/ Ymd(a.fecha) < Ymd(b.fecha)
    \/ Ymd(a.fecha) = Ymd(b.fecha) /\ Hm(a.salida) <= Hm(b.salida)

\* one insertion of the stable sort: x goes after every element not greater
RECURSIVE InsertSorted(_, _)
InsertSorted(sorted, x) ==
    IF sorted = << >> THEN <<x>>
    ELSE IF KeyLeq(Head(sorted), x)
         THEN <<Head(sorted)>> \o InsertSorted(Tail(sorted), x)
         ELSE <<x>> \o sorted

\* sorted(items, key=parse_sort_key)
RECURSIVE SortItems(_)
SortItems(items) ==
    IF items = << >> THEN << >>
    ELSE InsertSorted(SortItems(SubSeq(items, 1, Len(items) - 1)), items[Len(items)])

\* the fields of the dataclass MonitoredTrain, and those without a default
KnownFields ==
    {"id", "chat_id", "origen", "destino", "fecha", "salida", "tolerancia_min", "added_at"}

RequiredFields == {"id", "chat_id", "origen", "destino", "fecha", "salida"}

\* d has a key that is no field of MonitoredTrain
HasExtraField(d) == ~(DOMAIN d \subseteq KnownFields)

\* MonitoredTrain(**d) raises TypeError: a field without default is missing,
\* or d has a key that is no field
ConstructorRaises(d) ==
    ~(RequiredFields \subseteq DOMAIN d /\ DOMAIN d \subseteq KnownFields)

\* Store.list_for_chat(chat_id) raises: MonitoredTrain(**d) of a record of
\* the chat is a TypeError
ListForChatRaises(c) ==
    \E i \in DOMAIN Load : Load[i].chat_id = c /\ ConstructorRaises(Load[i])

\* Store.list_for_chat(chat_id), called when the file is not a scalar and
\* the records of the chat are complete
ListForChat(c) == SelectSeq(Load, LAMBDA d : d.chat_id = c)

\* the ids had format_saved_list kept the order of the file
SavedIds_Unsorted(items) == [i \in 1..Len(items) |-> items[i].id]

\* the ids half of format_saved_list(items)
SavedIds(items) == [i \in 1..Len(items) |-> SortItems(items)[i].id]

\* esta_lleno_en_hora has not been called
NoCheck ==
    [called |-> FALSE, busc_ok |-> FALSE, extraer_ok |-> FALSE, viajes |-> << >>,
     hora_objetivo |-> << >>, tolerancia_min |-> 0, resultado |-> << >>]

\* the clock of the specifications that leave time out
NoClock == [now |-> 0, when |-> 0, last_end |-> 0]

\* no /m conversation: state END, nothing of it in user_data
NoConv ==
    [state |-> "END", origen |-> << >>, destino |-> << >>, fecha |-> << >>,
     viajes |-> << >>, reply |-> "none"]

\* The Application is built without concurrent_updates: the next update is
\* handled only when the handler of the previous one has returned
HandlerIdle(c) == \A d \in Chats : crit[Handler(d)].op = "none"

---------------------------------------------------------------------------
(* /m conversation, last step.  The earlier steps only collect origen,    *)
(* destino, fecha and the scraped list into user_data; they are the       *)
(* inputs here.                                                           *)

\* choose_train had it no test of the estado
ChooseTrainBranch_NoRefusal(text, viajes) ==
    IF ~IsNumber(text) THEN "not_a_number"
    ELSE IF viajes = << >> THEN "no_list"
    ELSE IF ~(0 <= IntOf(text) - 1 /\ IntOf(text) - 1 < Len(viajes)) THEN "out_of_range"
    ELSE "store"

\* which way choose_train goes on the message text and user_data["viajes"]
ChooseTrainBranch(text, viajes) ==
    IF ~IsNumber(text) THEN "not_a_number"
    ELSE IF viajes = << >> THEN "no_list"
    ELSE IF ~(0 <= IntOf(text) - 1 /\ IntOf(text) - 1 < Len(viajes)) THEN "out_of_range"
    ELSE IF viajes[IntOf(text)].estado = "OK" THEN "already_available"
    ELSE "store"

\* STORE.add(item) up to and including `with STORE_LOCK: data = self._load()`
StoreAddBegin(c, item) ==
    /\ StoreLockFree
    /\ IF LoadIsScalar
       THEN \* the list comprehension over data raises TypeError
            UNCHANGED <<lock, crit>>
       ELSE /\ lock' = Handler(c)
            /\ crit' = [crit EXCEPT ![Handler(c)] =
                          [NoCall EXCEPT !.op = "add", !.data = Load, !.item = <<item>>]]

\* choose_train up to and including `with STORE_LOCK: data = self._load()`
ChooseTrain(c, text, viajes) ==
    /\ HandlerIdle(c)
    /\ IF ChooseTrainBranch(text, viajes) = "store"
       THEN StoreAddBegin(c, MonitoredTrain(c, Origen, Destino, Fecha,
                                            viajes[IntOf(text)].salida))
       ELSE \* not a number, no list, index out of range, or the trip is OK:
            \* a reply, nothing stored
            UNCHANGED <<lock, crit>>
    /\ UNCHANGED <<fileKind, file, convDelete, del_ids, jobs, sweep, notified, rmFailed, env, conv, check, clock>>

\* Store.add from data.append to the release of the lock
StoreAddEnd(c, outcome) ==
    /\ crit[Handler(c)].op = "add"
    /\ Save(AddTo(crit[Handler(c)].data, crit[Handler(c)].item[1]), outcome)
    /\ lock' = NoCaller
    /\ IF outcome = "written"
       THEN /\ crit' = [crit EXCEPT ![Handler(c)] =
                          [NoCall EXCEPT
                             !.op = "added",
                             !.item = crit[Handler(c)].item,
                             !.removed = Len(crit[Handler(c)].data) + 1
                                         - Len(AddTo(crit[Handler(c)].data,
                                                     crit[Handler(c)].item[1]))]]
            /\ notified' = notified \ {crit[Handler(c)].item[1].id}
            /\ rmFailed' = rmFailed \ {crit[Handler(c)].item[1].id}
       ELSE /\ crit' = [crit EXCEPT ![Handler(c)] = NoCall]
            /\ UNCHANGED <<notified, rmFailed>>

\* Store.add from data.append to the release of the lock; when _save raises
\* the exception leaves choose_train
AddSave(c, outcome) ==
    /\ StoreAddEnd(c, outcome)
    /\ UNCHANGED <<convDelete, del_ids, jobs, sweep, env, conv, check, clock>>

\* the rest of choose_train: the reply, the cleanup of user_data, END
AddReply(c) ==
    /\ crit[Handler(c)].op = "added"
    /\ crit' = [crit EXCEPT ![Handler(c)] = NoCall]
    /\ UNCHANGED <<fileKind, file, lock, convDelete, del_ids, jobs, sweep, notified, rmFailed, env, conv, check, clock>>

---------------------------------------------------------------------------
(* /delete conversation *)

\* user_data belongs to the user, a conversation to a user in a chat: the
\* handlers below are run for user u writing in chat c.  In a private chat
\* the chat id is the id of its user.
\* cmd_delete; outcome is what its reply_text does.  When the reply raises
\* after del_ids was set, the conversation does not move to DEL_CHOOSE
CmdDeleteBy(u, c, outcome) ==
    /\ HandlerIdle(c)
    /\ convDelete[c] = "END"
    /\ IF LoadIsScalar \/ ListForChatRaises(c) \/ ListForChat(c) = << >>
       THEN \* list_for_chat raises, or "No tienes viajes guardados."
            UNCHANGED <<convDelete, del_ids>>
       ELSE /\ del_ids' = [del_ids EXCEPT ![u] = SavedIds(ListForChat(c))]
            /\ convDelete' = [convDelete EXCEPT ![c] =
                                IF outcome = "sent" THEN "DEL_CHOOSE" ELSE "END"]
    /\ UNCHANGED <<fileKind, file, lock, crit, jobs, sweep, notified, rmFailed, env, conv, check, clock>>

\* choose_delete up to and including `with STORE_LOCK: data = self._load()`
ChooseDeleteBy(u, c, text) ==
    /\ HandlerIdle(c)
    /\ convDelete[c] = "DEL_CHOOSE"
    /\ IF ~IsNumber(text)
       THEN UNCHANGED <<lock, crit, convDelete>>
       ELSE IF del_ids[u] = << >>
       THEN /\ convDelete' = [convDelete EXCEPT ![c] = "END"]
            /\ UNCHANGED <<lock, crit>>
       ELSE IF ~(0 <= IntOf(text) - 1 /\ IntOf(text) - 1 < Len(del_ids[u]))
       THEN UNCHANGED <<lock, crit, convDelete>>
       ELSE /\ StoreLockFree
            /\ IF LoadIsScalar
               THEN \* len(data) raises TypeError: the handler ends there
                    UNCHANGED <<lock, crit, convDelete>>
               ELSE /\ lock' = Handler(c)
                    /\ crit' = [crit EXCEPT ![Handler(c)] =
                                  [NoCall EXCEPT
                                     !.op = "rm",
                                     !.data = Load,
                                     !.ids = <<del_ids[u][IntOf(text)]>>]]
                    /\ UNCHANGED convDelete
    /\ UNCHANGED <<fileKind, file, del_ids, jobs, sweep, notified, rmFailed, env, conv, check, clock>>

\* cmd_delete and choose_delete in the private chat c
CmdDelete(c, outcome) == CmdDeleteBy(c, c, outcome)

ChooseDelete(c, text) == ChooseDeleteBy(c, c, text)

\* Store.remove_ids from the filter to the release of the lock; when _save
\* raises the exception leaves choose_delete, the conversation stays
DeleteSave(c, outcome) ==
    /\ crit[Handler(c)].op = "rm"
    /\ Save(RemoveFrom(crit[Handler(c)].data, crit[Handler(c)].ids), outcome)
    /\ lock' = NoCaller
    /\ crit' = [crit EXCEPT ![Handler(c)] =
                  IF outcome = "written"
                  THEN [NoCall EXCEPT
                          !.op = "removed",
                          !.ids = crit[Handler(c)].ids,
                          !.removed = Len(crit[Handler(c)].data)
                                      - Len(RemoveFrom(crit[Handler(c)].data, crit[Handler(c)].ids))]
                  ELSE NoCall]
    /\ UNCHANGED <<convDelete, del_ids, jobs, sweep, notified, rmFailed, env, conv, check, clock>>

\* the rest of choose_delete: the reply ("eliminado" or "no se pudo"), then
\* del_ids is dropped and the conversation ends; not when the reply raises
DeleteReplyBy(u, c, outcome) ==
    /\ crit[Handler(c)].op = "removed"
    /\ crit' = [crit EXCEPT ![Handler(c)] = NoCall]
    /\ IF outcome = "sent"
       THEN /\ del_ids' = [del_ids EXCEPT ![u] = << >>]
            /\ convDelete' = [convDelete EXCEPT ![c] = "END"]
       ELSE UNCHANGED <<del_ids, convDelete>>
    /\ UNCHANGED <<fileKind, file, lock, jobs, sweep, notified, rmFailed, env, conv, check, clock>>

\* cancel_any ("stop", "/stop"): user_data.clear(), the reply, then END
CancelAnyBy(u, c, outcome) ==
    /\ HandlerIdle(c)
    /\ del_ids' = [del_ids EXCEPT ![u] = << >>]
    /\ conv' = [conv EXCEPT ![u] = [NoConv EXCEPT !.state = conv[u].state,
                                                  !.reply = conv[u].reply]]
    /\ convDelete' = [convDelete EXCEPT ![c] = IF outcome = "sent" THEN "END" ELSE @]
    /\ UNCHANGED <<fileKind, file, lock, crit, jobs, sweep, notified, rmFailed, env, check, clock>>

\* the reply of choose_delete and cancel_any in the private chat c
DeleteReply(c, outcome) == DeleteReplyBy(c, c, outcome)

CancelAny(c, outcome) == CancelAnyBy(c, c, outcome)

---------------------------------------------------------------------------
(* The job queue and the sweep *)

IdleSweep ==
    [pc |-> "idle", items |-> << >>, results |-> << >>, idx |-> 0,
     to_remove_ids |-> << >>, sent |-> {}, unsent |-> {}, removed |-> << >>]

Running == { s \in Slots : sweep[s].pc # "idle" }

\* the queue had run_once not been called
JobsAfterArm_Never(n) == n

\* job_queue.run_once(_periodic_scheduler, ...): one more pending job
JobsAfterArm(n) == n + 1

\* a repeating job stays in the queue when its callback starts
JobsAfterStart_Repeating(n) == n

\* a run_once job leaves the queue when its callback starts
JobsAfterStart(n) == n - 1

\* _list_all_items(), called when the file is not a scalar: salida is filled
\* in, and a record MonitoredTrain(**d) raises on is skipped
ListAllItems ==
    SelectSeq([i \in 1..Len(Load) |-> FillSalida(Load[i])],
              LAMBDA d : ~ConstructorRaises(d))

\* the slot a starting callback takes
FreeSlot == CHOOSE s \in Slots : sweep[s].pc = "idle" /\ \A t \in Slots : t < s => sweep[t].pc # "idle"

\* the callback had it, on an empty list, gone on to a remove_ids call
\* instead of returning
PeriodicSchedulerStart_NoEmptyReturn ==
    /\ jobs > 0
    /\ \E s \in Slots : sweep[s].pc = "idle"
    /\ jobs' = JobsAfterStart(jobs)
    /\ sweep' = [sweep EXCEPT ![FreeSlot] =
         IF LoadIsScalar
         THEN [IdleSweep EXCEPT !.pc = "raised"]
         ELSE IF ListAllItems = << >>
         THEN [IdleSweep EXCEPT !.pc = "remove"]
         ELSE [IdleSweep EXCEPT !.pc = "gather",
                                !.items = ListAllItems,
                                !.results = [i \in 1..Len(ListAllItems) |-> "PENDING"]]]
    /\ UNCHANGED <<fileKind, file, lock, crit, convDelete, del_ids, notified, rmFailed, env, conv, check, clock>>

\* The job queue starts _periodic_scheduler, which runs _check_once_and_notify
\* up to the await of gather: the snapshot, and the return on an empty list
PeriodicSchedulerStart ==
    /\ jobs > 0
    /\ \E s \in Slots : sweep[s].pc = "idle"
    /\ jobs' = JobsAfterStart(jobs)
    /\ sweep' = [sweep EXCEPT ![FreeSlot] =
         IF LoadIsScalar
         THEN \* `for d in raw` raises TypeError out of the sweep
              [IdleSweep EXCEPT !.pc = "raised"]
         ELSE IF ListAllItems = << >>
         THEN [IdleSweep EXCEPT !.pc = "returned"]
         ELSE [IdleSweep EXCEPT !.pc = "gather",
                                !.items = ListAllItems,
                                !.results = [i \in 1..Len(ListAllItems) |-> "PENDING"]]]
    /\ UNCHANGED <<fileKind, file, lock, crit, convDelete, del_ids, notified, rmFailed, env, conv, check, clock>>

\* the test had it stopped at `if not res: continue`
Resolved_AnyResult(res) == res # "RAISED"

\* the result is treated as resolved: `if not res: continue`, then estado == "OK"
Resolved(res) == res # "RAISED" /\ res = "OK"

\* the loop over results had `if to_remove_ids:` and its remove_ids call been left out
RECURSIVE AfterItem_NoRemoval(_)
AfterItem_NoRemoval(sw) ==
    IF sw.idx > Len(sw.items)
    THEN [sw EXCEPT !.pc = "returned"]
    ELSE IF sw.results[sw.idx] = "OK" THEN sw
    ELSE AfterItem_NoRemoval([sw EXCEPT !.idx = @ + 1])

\* The loop over results runs without an await over the results that are not
\* resolved: the sweep stops at the next send_message, or leaves the loop
RECURSIVE AfterItem(_)
AfterItem(sw) ==
    IF sw.idx > Len(sw.items)
    THEN IF sw.to_remove_ids # << >> THEN [sw EXCEPT !.pc = "remove"]
         ELSE [sw EXCEPT !.pc = "returned"]
    ELSE IF Resolved(sw.results[sw.idx]) THEN sw
    ELSE AfterItem([sw EXCEPT !.idx = @ + 1])

\* the sweep once the check of items[i] has ended with outcome, had _check_item
\* no try/except: gather(return_exceptions=False) would raise out of the sweep
CheckItemDone_Uncaught(sw, i, outcome) ==
    LET res == [sw.results EXCEPT ![i] = outcome]
    IN IF outcome = "RAISED"
       THEN [sw EXCEPT !.results = res, !.pc = "raised"]
       ELSE IF \E j \in 1..Len(res) : res[j] = "PENDING"
       THEN [sw EXCEPT !.results = res]
       ELSE AfterItem([sw EXCEPT !.results = res, !.pc = "notify", !.idx = 1])

\* the sweep had it gone on to the loop over results at the first check that ends
CheckItemDone_NoWait(sw, i, outcome) ==
    LET res == [sw.results EXCEPT ![i] = outcome]
    IN AfterItem([sw EXCEPT !.results = res, !.pc = "notify", !.idx = 1])

\* the sweep once the check of items[i] has ended with outcome: _check_item
\* returns (it, res), or (it, None) after an exception; when it was the last
\* one gather returns and the loop over results starts
CheckItemDone(sw, i, outcome) ==
    LET res == [sw.results EXCEPT ![i] = outcome]
    IN IF \E j \in 1..Len(res) : res[j] = "PENDING"
       THEN [sw EXCEPT !.results = res]
       ELSE AfterItem([sw EXCEPT !.results = res, !.pc = "notify", !.idx = 1])

\* one _check_item finishes: the scraper's estado, or None after an exception
CheckItem(s, i, outcome) ==
    /\ sweep[s].pc = "gather"
    /\ i \in 1..Len(sweep[s].items)
    /\ sweep[s].results[i] = "PENDING"
    /\ sweep' = [sweep EXCEPT ![s] = CheckItemDone(sweep[s], i, outcome)]
    /\ UNCHANGED <<fileKind, file, lock, crit, convDelete, del_ids, jobs, notified, rmFailed, env, conv, check, clock>>

\* to_remove_ids had the append been placed before the send_message
QueueRemoval_BeforeSend(to_remove, id, outcome) == Append(to_remove, id)

\* to_remove_ids had the append been forgotten
QueueRemoval_Never(to_remove, id, outcome) == to_remove

\* to_remove_ids after the send_message for id ended with outcome
QueueRemoval(to_remove, id, outcome) ==
    IF outcome = "sent" THEN Append(to_remove, id) ELSE to_remove

\* the loop index had the except clause left the loop (`break`, or no
\* try/except around send_message)
IdxAfterSend_BreakOnError(sw, outcome) ==
    IF outcome = "sent" THEN sw.idx + 1 ELSE Len(sw.items) + 1

\* the loop index after the send_message at idx: the except clause only
\* prints, and the for loop goes on to the next result
IdxAfterSend(sw, outcome) == sw.idx + 1

\* send_message for the resolved result at idx ends with outcome; the loop
\* goes on to the next send_message or to its end
NotifyItem(s, outcome) ==
    /\ sweep[s].pc = "notify"
    /\ LET it == sweep[s].items[sweep[s].idx]
       IN /\ sweep' = [sweep EXCEPT ![s] = AfterItem(
                    [sweep[s] EXCEPT
                        !.idx = IdxAfterSend(sweep[s], outcome),
                        !.to_remove_ids = QueueRemoval(@, it.id, outcome),
                        !.sent = IF outcome = "sent" THEN @ \cup {it.id} ELSE @,
                        !.unsent = IF outcome = "sent" THEN @ ELSE @ \cup {it.id}])]
          /\ notified' = IF outcome = "sent" THEN notified \cup {it.id} ELSE notified
    /\ UNCHANGED <<fileKind, file, lock, crit, convDelete, del_ids, jobs, rmFailed, env, conv, check, clock>>

\* STORE.remove_ids(to_remove_ids) up to `with STORE_LOCK: data = self._load()`
RemoveIdsStart(s) ==
    /\ sweep[s].pc = "remove"
    /\ StoreLockFree
    /\ IF LoadIsScalar
       THEN \* len(data) raises; `except Exception` at the call logs it
            /\ sweep' = [sweep EXCEPT ![s].pc = "returned"]
            /\ rmFailed' = rmFailed \cup SeqToSet(sweep[s].to_remove_ids)
            /\ UNCHANGED <<lock, crit>>
       ELSE /\ lock' = Job(s)
            /\ crit' = [crit EXCEPT ![Job(s)] =
                          [NoCall EXCEPT !.op = "rm", !.data = Load,
                                         !.ids = sweep[s].to_remove_ids]]
            /\ sweep' = [sweep EXCEPT ![s].pc = "removing"]
            /\ UNCHANGED rmFailed
    /\ UNCHANGED <<fileKind, file, convDelete, del_ids, jobs, notified, env, conv, check, clock>>

\* Store.remove_ids from the filter to the release of the lock; an exception
\* of _save is caught and logged by the sweep, which goes on to its summary
RemoveIdsSave(s, outcome) ==
    /\ sweep[s].pc = "removing"
    /\ crit[Job(s)].op = "rm"
    /\ Save(RemoveFrom(crit[Job(s)].data, crit[Job(s)].ids), outcome)
    /\ lock' = NoCaller
    /\ crit' = [crit EXCEPT ![Job(s)] = NoCall]
    /\ sweep' = [sweep EXCEPT
                   ![s].pc = "returned",
                   ![s].removed =
                       IF outcome = "written"
                       THEN <<Len(crit[Job(s)].data)
                              - Len(RemoveFrom(crit[Job(s)].data, crit[Job(s)].ids))>>
                       ELSE << >>]
    /\ rmFailed' = IF outcome = "written" THEN rmFailed
                   ELSE rmFailed \cup SeqToSet(crit[Job(s)].ids)
    /\ UNCHANGED <<convDelete, del_ids, jobs, notified, env, conv, check, clock>>

\* ids a history variable still has to remember once slot s is done: those
\* stored or held by another running callback (any other id has to be
\* registered again, which resets its history, before it can be notified)
Live(s) ==
    StoredIds \cup UNION { IdsOf(sweep[t].items) : t \in Slots \ {s} }

\* the sweep has returned: _periodic_scheduler calls run_once
Reschedule(s) ==
    /\ sweep[s].pc = "returned"
    /\ jobs' = JobsAfterArm(jobs)
    /\ sweep' = [sweep EXCEPT ![s] = IdleSweep]
    /\ notified' = notified \cap Live(s)
    /\ rmFailed' = rmFailed \cap Live(s)
    /\ UNCHANGED <<fileKind, file, lock, crit, convDelete, del_ids, env, conv, check>>

\* the sweep has returned and the next run is armed, the clock left out
Rearm(s) == Reschedule(s) /\ UNCHANGED clock

\* the sweep raised: the exception leaves _periodic_scheduler before run_once
CallbackRaised(s) ==
    /\ sweep[s].pc = "raised"
    /\ sweep' = [sweep EXCEPT ![s] = IdleSweep]
    /\ UNCHANGED <<fileKind, file, lock, crit, convDelete, del_ids, jobs, notified, rmFailed, env, conv, check, clock>>

---------------------------------------------------------------------------
(* The specification *)

\* what can be on disk when the process starts
InitialFileKinds == {"missing", "garbage", "scalar", "list"}

\* main(): the application is built, schedule_first_check has armed the first job
Init ==
    /\ fileKind \in InitialFileKinds
    /\ file = << >>
    /\ lock = NoCaller
    /\ crit = [k \in Callers |-> NoCall]
    /\ convDelete = [c \in Chats |-> "END"]
    /\ del_ids = [c \in Chats |-> << >>]
    /\ jobs = JobsAfterArm(0)
    /\ sweep = [s \in Slots |-> IdleSweep]
    /\ notified = {}
    /\ rmFailed = {}
    /\ env = "any"
    /\ conv = [c \in Chats |-> NoConv]
    /\ check = NoCheck
    /\ clock = NoClock

Next ==
    \/ \E c \in Chats, text \in Texts, viajes \in ViajesLists : ChooseTrain(c, text, viajes)
    \/ \E c \in Chats, outcome \in SaveOutcomes : AddSave(c, outcome)
    \/ \E c \in Chats : AddReply(c)
    \/ \E c \in Chats : CmdDelete(c, "sent")
    \/ \E c \in Chats, text \in Texts : ChooseDelete(c, text)
    \/ \E c \in Chats, outcome \in SaveOutcomes : DeleteSave(c, outcome)
    \/ \E c \in Chats : DeleteReply(c, "sent")
    \/ \E c \in Chats : CancelAny(c, "sent")
    \/ PeriodicSchedulerStart
    \/ \E s \in Slots : \E i \in DOMAIN sweep[s].items, outcome \in CheckOutcomes : CheckItem(s, i, outcome)
    \/ \E s \in Slots, outcome \in SendOutcomes : NotifyItem(s, outcome)
    \/ \E s \in Slots : RemoveIdsStart(s)
    \/ \E s \in Slots, outcome \in SaveOutcomes : RemoveIdsSave(s, outcome)
    \/ \E s \in Slots : Rearm(s)
    \/ \E s \in Slots : CallbackRaised(s)

Spec == Init /\ [][Next]_vars

---------------------------------------------------------------------------
(* The program in an environment that settles *)

\* the watch the environment settles for
Watched == MonitoredTrain(1, Origen, Destino, Fecha, Salidas[1]).id

\* "checks": from now on esta_lleno_en_hora finds Watched OK and send_message
\* for Watched returns; "writes": and _save in remove_ids writes
Regimes == {"any", "checks", "writes"}

RegimesAfter(e) ==
    CASE e = "any" -> {"checks", "writes"}
      [] e = "checks" -> {"writes"}
      [] OTHER -> {}

Settle ==
    /\ env' \in RegimesAfter(env)
    /\ UNCHANGED <<fileKind, file, lock, crit, convDelete, del_ids, jobs, sweep,
                   notified, rmFailed, conv, check, clock>>

CheckOutcomesOf(id) ==
    IF env # "any" /\ id = Watched THEN {"OK"} ELSE CheckOutcomes

SendOutcomesOf(id) ==
    IF env # "any" /\ id = Watched THEN {"sent"} ELSE SendOutcomes

RemovalOutcomes ==
    IF env = "writes" THEN {"written"} ELSE SaveOutcomes

LiveCheckItem ==
    \E s \in Slots : \E i \in DOMAIN sweep[s].items :
        \E outcome \in CheckOutcomesOf(sweep[s].items[i].id) : CheckItem(s, i, outcome)

LiveNotifyItem ==
    \E s \in Slots :
        /\ sweep[s].pc = "notify"
        /\ \E outcome \in SendOutcomesOf(sweep[s].items[sweep[s].idx].id) :
              NotifyItem(s, outcome)

LiveRemoveIdsSave ==
    \E s \in Slots, outcome \in RemovalOutcomes : RemoveIdsSave(s, outcome)

\* the chats that use /delete and stop while the environment settles
Deleters == {1}

LiveNext ==
    \/ Settle
    \/ \E c \in Chats, text \in Texts, viajes \in ViajesLists : ChooseTrain(c, text, viajes)
    \/ \E c \in Chats, outcome \in SaveOutcomes : AddSave(c, outcome)
    \/ \E c \in Chats : AddReply(c)
    \/ \E c \in Deleters : CmdDelete(c, "sent")
    \/ \E c \in Deleters, text \in Texts : ChooseDelete(c, text)
    \/ \E c \in Deleters, outcome \in SaveOutcomes : DeleteSave(c, outcome)
    \/ \E c \in Deleters : DeleteReply(c, "sent")
    \/ \E c \in Deleters : CancelAny(c, "sent")
    \/ PeriodicSchedulerStart
    \/ LiveCheckItem
    \/ LiveNotifyItem
    \/ \E s \in Slots : RemoveIdsStart(s)
    \/ LiveRemoveIdsSave
    \/ \E s \in Slots : Rearm(s)
    \/ \E s \in Slots : CallbackRaised(s)

\* The job queue runs a due job; an awaited check or send ends; synchronous
\* code (Store.add, Store.remove_ids, the re-arm) runs to its end; the sweep
\* gets STORE_LOCK, which no handler holds across an await
LiveFairness ==
    /\ WF_vars(PeriodicSchedulerStart)
    /\ WF_vars(LiveCheckItem)
    /\ WF_vars(LiveNotifyItem)
    /\ SF_vars(\E s \in Slots : RemoveIdsStart(s))
    /\ WF_vars(LiveRemoveIdsSave)
    /\ WF_vars(\E s \in Slots : Rearm(s))
    /\ WF_vars(\E c \in Chats, outcome \in SaveOutcomes : AddSave(c, outcome))
    /\ WF_vars(\E c \in Deleters, outcome \in SaveOutcomes : DeleteSave(c, outcome))

LiveSpec == Init /\ [][LiveNext]_vars /\ LiveFairness

---------------------------------------------------------------------------
(* The /m conversation, step by step.  Texts are sequences of characters. *)

\* str.strip() for the blanks of the universe
RECURSIVE LStrip(_)
LStrip(s) == IF s # << >> /\ Head(s) = " " THEN LStrip(Tail(s)) ELSE s

RECURSIVE RStrip(_)
RStrip(s) ==
    IF s # << >> /\ s[Len(s)] = " " THEN RStrip(SubSeq(s, 1, Len(s) - 1)) ELSE s

Strip(s) == RStrip(LStrip(s))

\* DATE_RE = ^\d{2}/\d{2}/\d{4}$
MatchesDateRe(s) ==
    /\ Len(s) = 10
    /\ s[3] = "/" /\ s[6] = "/"
    /\ \A i \in {1, 2, 4, 5, 7, 8, 9, 10} : s[i] \in Digits

IsLeap(y) == y % 4 = 0 /\ (y % 100 # 0 \/ y % 400 = 0)

DaysInMonth(m, y) ==
    CASE m \in {1, 3, 5, 7, 8, 10, 12} -> 31
      [] m \in {4, 6, 9, 11} -> 30
      [] m = 2 -> IF IsLeap(y) THEN 29 ELSE 28
      [] OTHER -> 0

\* datetime.strptime(s, "%d/%m/%Y") does not raise, for s of the shape of DATE_RE
StrptimeOk(s) ==
    LET d == 10 * DigitVal(s[1]) + DigitVal(s[2])
        m == 10 * DigitVal(s[4]) + DigitVal(s[5])
        y == 1000 * DigitVal(s[7]) + 100 * DigitVal(s[8]) + 10 * DigitVal(s[9]) + DigitVal(s[10])
    IN /\ y >= 1
       /\ m \in 1..12
       /\ d >= 1 /\ d <= DaysInMonth(m, y)

\* normalize_date had it stopped at the check of the shape
NormalizeDate_ShapeOnly(s) ==
    IF MatchesDateRe(Strip(s)) THEN <<Strip(s)>> ELSE << >>

\* normalize_date(s): <<the stripped text>>, or << >> for None
NormalizeDate(s) ==
    IF MatchesDateRe(Strip(s)) /\ StrptimeOk(Strip(s)) THEN <<Strip(s)>> ELSE << >>

\* what a user answers to "Fecha (dd/mm/YYYY):"
DateTexts ==
    { <<"0", "6", "/", "1", "0", "/", "2", "0", "2", "5">>,
      <<" ", "0", "6", "/", "1", "0", "/", "2", "0", "2", "5", " ">>,
      <<"6", "/", "1", "0", "/", "2", "0", "2", "5">>,
      <<"0", "6", "-", "1", "0", "-", "2", "0", "2", "5">>,
      <<"3", "1", "/", "0", "2", "/", "2", "0", "2", "5">>,
      <<"2", "9", "/", "0", "2", "/", "2", "0", "2", "5">>,
      <<"0", "0", "/", "1", "0", "/", "2", "0", "2", "5">>,
      <<"0", "6", "/", "1", "3", "/", "2", "0", "2", "5">>,
      <<"0", "6", "/", "1", "0", "/", "2", "0", "2", "5", "x">> }

\* a row of the results table as the page shows it: hours that the regex
\* \d{2}:\d{2} finds, or "" where it finds none
Fila(salida, llegada, estado) == [salida |-> salida, llegada |-> llegada, estado |-> estado]

\* row lists a search can find on the page
FilasLists ==
    { <<Fila(Salidas[1], Llegada, "LLENO"), Fila(Salidas[2], Llegada, "OK")>>,
      <<Fila("", Llegada, "LLENO"), Fila(Salidas[1], Llegada, "DESCONOCIDO")>>,
      <<Fila("", "", "OK")>>,
      << >> }

\* _extraer_trayectos_ida had it kept the rows without hours
ExtraerTrayectosIda_KeepAll(filas) == filas

\* _extraer_trayectos_ida: rows without both hours are skipped
ExtraerTrayectosIda(filas) ==
    SelectSeq(filas, LAMBDA f : f.salida # "" /\ f.llegada # "")

\* what run_scraper_search does: raises, or returns the extracted list
SearchOutcomes == {"raised", "returned"}

\* everything but the /m conversation and the Store call of its handler
IntakeFrame == UNCHANGED <<convDelete, del_ids, jobs, sweep, notified, rmFailed, env, check, clock>>

\* cmd_monitor: the entry point /m
CmdMonitor(c) ==
    /\ HandlerIdle(c)
    /\ conv[c].state = "END"
    /\ conv' = [conv EXCEPT ![c].state = "ASK_ORIGIN", ![c].reply = "ask_origin"]
    /\ UNCHANGED <<fileKind, file, lock, crit>>
    /\ IntakeFrame

\* ask_dest: user_data["origen"] = update.message.text.strip()
AskDestText(c, text) ==
    /\ HandlerIdle(c)
    /\ conv[c].state = "ASK_ORIGIN"
    /\ conv' = [conv EXCEPT ![c].state = "ASK_DEST", ![c].origen = Strip(text),
                            ![c].reply = "ask_dest"]
    /\ UNCHANGED <<fileKind, file, lock, crit>>
    /\ IntakeFrame

\* ask_dest: the answer is the origin
AskDest(c) == AskDestText(c, Origen)

\* ask_date: user_data["destino"] = update.message.text.strip()
AskDateText(c, text) ==
    /\ HandlerIdle(c)
    /\ conv[c].state = "ASK_DEST"
    /\ conv' = [conv EXCEPT ![c].state = "ASK_DATE", ![c].destino = Strip(text),
                            ![c].reply = "ask_date"]
    /\ UNCHANGED <<fileKind, file, lock, crit>>
    /\ IntakeFrame

\* ask_date: the answer is the destination
AskDate(c) == AskDateText(c, Destino)

\* show_trains: the answer is the date; the search finds filas or raises
ShowTrains(c, text, search, filas) ==
    /\ HandlerIdle(c)
    /\ conv[c].state = "ASK_DATE"
    /\ conv' = [conv EXCEPT ![c] =
         IF NormalizeDate(text) = << >>
         THEN [@ EXCEPT !.reply = "invalid_date"]
         ELSE IF search = "raised"
         THEN [@ EXCEPT !.state = "END", !.reply = "search_error"]
         ELSE IF ExtraerTrayectosIda(filas) = << >>
         THEN [@ EXCEPT !.state = "END", !.reply = "no_trains"]
         ELSE [@ EXCEPT !.state = "CHOOSE_TRAIN",
                        !.fecha = NormalizeDate(text)[1],
                        !.viajes = ExtraerTrayectosIda(filas),
                        !.reply = "choose_train"]]
    /\ UNCHANGED <<fileKind, file, lock, crit>>
    /\ IntakeFrame

\* choose_train in its conversation, up to the reply or to
\* `with STORE_LOCK: data = self._load()`
ChooseTrainConv(c, text) ==
    /\ HandlerIdle(c)
    /\ conv[c].state = "CHOOSE_TRAIN"
    /\ LET branch == ChooseTrainBranch(text, conv[c].viajes)
       IN CASE branch = "store" ->
                 /\ StoreAddBegin(c, MonitoredTrain(c, conv[c].origen, conv[c].destino,
                                                    conv[c].fecha,
                                                    conv[c].viajes[IntOf(text)].salida))
                 /\ UNCHANGED conv
            [] branch = "already_available" ->
                 \* the reply, then the four keys are popped
                 /\ conv' = [conv EXCEPT ![c] = [NoConv EXCEPT !.reply = "already_available"]]
                 /\ UNCHANGED <<lock, crit>>
            [] branch = "no_list" ->
                 /\ conv' = [conv EXCEPT ![c].state = "END", ![c].reply = "no_list"]
                 /\ UNCHANGED <<lock, crit>>
            [] OTHER ->
                 /\ conv' = [conv EXCEPT ![c].reply = branch]
                 /\ UNCHANGED <<lock, crit>>
    /\ UNCHANGED <<fileKind, file>>
    /\ IntakeFrame

\* the rest of choose_train in its conversation: the reply, the four keys
\* are popped, END
AddReplyConv(c) ==
    /\ crit[Handler(c)].op = "added"
    /\ crit' = [crit EXCEPT ![Handler(c)] = NoCall]
    /\ conv' = [conv EXCEPT ![c] = [NoConv EXCEPT !.reply = "added"]]
    /\ UNCHANGED <<fileKind, file, lock>>
    /\ IntakeFrame

\* cancel_any in the /m conversation: user_data.clear(), the greeting, END
CancelMonitor(c) ==
    /\ HandlerIdle(c)
    /\ conv[c].state # "END"
    /\ conv' = [conv EXCEPT ![c] = [NoConv EXCEPT !.reply = "greet"]]
    /\ del_ids' = [del_ids EXCEPT ![c] = << >>]
    /\ UNCHANGED <<fileKind, file, lock, crit, convDelete, jobs, sweep, notified, rmFailed, env, check, clock>>

IntakeNext ==
    \/ \E c \in Chats : CmdMonitor(c)
    \/ \E c \in Chats : AskDest(c)
    \/ \E c \in Chats : AskDate(c)
    \/ \E c \in Chats, text \in DateTexts, search \in SearchOutcomes, filas \in FilasLists :
          ShowTrains(c, text, search, filas)
    \/ \E c \in Chats, text \in Texts : ChooseTrainConv(c, text)
    \/ \E c \in Chats, outcome \in SaveOutcomes : AddSave(c, outcome)
    \/ \E c \in Chats : AddReplyConv(c)
    \/ \E c \in Chats : CancelMonitor(c)

IntakeSpec == Init /\ [][IntakeNext]_vars

---------------------------------------------------------------------------
(* The /m conversation with station names the user types.  A name is the   *)
(* sequence of its words and hyphens.                                      *)

\* what the user answers to "Origen:" and to "Destino:"
OrigenTexts == { <<"A">>, <<"A", "-", "B">>, <<" ", "A", " ">> }

DestinoTexts == { <<"C">>, <<"B", "-", "C">> }

\* the date the user answers with
FechaText == <<"0", "6", "/", "1", "0", "/", "2", "0", "2", "5">>

\* the chats that register under these names
Namers == {1}

NamesNext ==
    \/ \E c \in Namers : CmdMonitor(c)
    \/ \E c \in Namers, text \in OrigenTexts : AskDestText(c, text)
    \/ \E c \in Namers, text \in DestinoTexts : AskDateText(c, text)
    \/ \E c \in Namers, search \in SearchOutcomes, filas \in FilasLists :
          ShowTrains(c, FechaText, search, filas)
    \/ \E c \in Namers, text \in Texts : ChooseTrainConv(c, text)
    \/ \E c \in Namers, outcome \in SaveOutcomes : AddSave(c, outcome)
    \/ \E c \in Namers : AddReplyConv(c)
    \/ \E c \in Namers : CancelMonitor(c)

NamesSpec == Init /\ [][NamesNext]_vars

---------------------------------------------------------------------------
(* Both conversations of one user.  build_application adds monitor_conv    *)
(* and then delete_conv to the same handler group: an update goes to the   *)
(* first of the two that has a handler for it, and to that one only.       *)

\* "stop" or "/stop": monitor_conv takes it in each of its states; else it
\* goes to delete_conv in DEL_CHOOSE, or ("/stop") to the plain command
StopSent(c) ==
    \/ conv[c].state # "END" /\ CancelMonitor(c)
    \/ conv[c].state = "END" /\ CancelAny(c, "sent")

\* a text that is not a command reaches choose_delete only when monitor_conv
\* has no state for the user
TextToDelete(c, text) ==
    /\ conv[c].state = "END"
    /\ ChooseDelete(c, text)

DialogNext ==
    \/ \E c \in Chats : CmdMonitor(c)
    \/ \E c \in Chats : AskDest(c)
    \/ \E c \in Chats : AskDate(c)
    \/ \E c \in Chats, text \in DateTexts, search \in SearchOutcomes, filas \in FilasLists :
          ShowTrains(c, text, search, filas)
    \/ \E c \in Chats, text \in Texts : ChooseTrainConv(c, text)
    \/ \E c \in Chats, outcome \in SaveOutcomes : AddSave(c, outcome)
    \/ \E c \in Chats : AddReplyConv(c)
    \/ \E c \in Chats : CmdDelete(c, "sent")
    \/ \E c \in Chats, text \in Texts : TextToDelete(c, text)
    \/ \E c \in Chats, outcome \in SaveOutcomes : DeleteSave(c, outcome)
    \/ \E c \in Chats : DeleteReply(c, "sent")
    \/ \E c \in Chats : StopSent(c)

DialogSpec == Init /\ [][DialogNext]_vars

---------------------------------------------------------------------------
(* The availability checker: esta_lleno_en_hora picks the trip of a watch  *)
(* out of the list scraped for its date                                    *)

MaxTrips == 2

\* departure times as texts, one character per element
Hora(h1, h2, m1, m2) == <<h1, h2, ":", m1, m2>>

\* the times on a result page
HorasSalida ==
    { Hora("0", "7", "5", "8"), Hora("0", "7", "5", "9"), Hora("0", "8", "0", "0"),
      Hora("0", "8", "0", "2"), Hora("0", "8", "1", "0") }

\* the hora_objetivo of a call: a time of the page's form, the same time
\* written without its leading zero, and a text that is no time
HorasObjetivo ==
    { Hora("0", "8", "0", "0"), <<"8", ":", "0", "0">>, <<"0", "8", "0", "0">> }

\* tolerancia_min is any int: the bot stores 5, the scraper's own main uses
\* 2, its default is 0
Tolerancias == {-1, 0, 2, ToleranciaMin}

\* a dict appended by _extraer_trayectos_ida: it always has the three keys,
\* and salida matches \d{2}:\d{2}
Trayecto(salida, estado) ==
    [salida |-> salida, llegada |-> Hora("1", "0", "0", "0"), estado |-> estado]

Trayectos == { Trayecto(h, e) : h \in HorasSalida, e \in Estados }

\* the lists _extraer_trayectos_ida can return
TrayectosLists ==
    UNION { [1..n -> Trayectos] : n \in 0..MaxTrips }

\* s.split(":")
RECURSIVE SplitColon(_)
SplitColon(s) ==
    IF \E i \in DOMAIN s : s[i] = ":"
    THEN LET i == CHOOSE k \in DOMAIN s :
                     s[k] = ":" /\ \A j \in 1..(k - 1) : s[j] # ":"
         IN <<SubSeq(s, 1, i - 1)>> \o SplitColon(SubSeq(s, i + 1, Len(s)))
    ELSE <<s>>

\* int(t) returns for a text of digits
IntParses(t) == t # << >> /\ \A i \in DOMAIN t : t[i] \in Digits

RECURSIVE IntOfDigits(_)
IntOfDigits(t) ==
    IF t = << >> THEN 0
    ELSE 10 * IntOfDigits(SubSeq(t, 1, Len(t) - 1)) + DigitVal(t[Len(t)])

\* h, m = map(int, hhmm.split(":")) as <<h * 60 + m>>; << >> when it raises
Minutos(hhmm) ==
    LET p == SplitColon(hhmm)
    IN IF Len(p) = 2 /\ IntParses(p[1]) /\ IntParses(p[2])
       THEN <<IntOfDigits(p[1]) * 60 + IntOfDigits(p[2])>>
       ELSE << >>

\* _min_diff
MinDiff(hhmm_a, hhmm_b) ==
    IF Minutos(hhmm_a) = << >> \/ Minutos(hhmm_b) = << >>
    THEN 9999
    ELSE LET d == Minutos(hhmm_a)[1] - Minutos(hhmm_b)[1]
         IN IF d < 0 THEN -d ELSE d

\* the first loop taking the first trip within the tolerance
RECURSIVE BuscarMejor_FirstWithin(_, _, _, _, _, _)
BuscarMejor_FirstWithin(viajes, hora_objetivo, tolerancia_min, i, mejor, mejor_diff) ==
    IF i > Len(viajes) THEN mejor
    ELSE LET diff == MinDiff(viajes[i].salida, hora_objetivo)
         IN IF diff <= tolerancia_min /\ mejor = 0
            THEN BuscarMejor_FirstWithin(viajes, hora_objetivo, tolerancia_min, i + 1, i, diff)
            ELSE BuscarMejor_FirstWithin(viajes, hora_objetivo, tolerancia_min, i + 1,
                                         mejor, mejor_diff)

\* the first loop from trip i on: the index of mejor, 0 for None
RECURSIVE BuscarMejor(_, _, _, _, _, _)
BuscarMejor(viajes, hora_objetivo, tolerancia_min, i, mejor, mejor_diff) ==
    IF i > Len(viajes) THEN mejor
    ELSE LET diff == MinDiff(viajes[i].salida, hora_objetivo)
         IN IF diff <= tolerancia_min /\ diff < mejor_diff
            THEN BuscarMejor(viajes, hora_objetivo, tolerancia_min, i + 1, i, diff)
            ELSE BuscarMejor(viajes, hora_objetivo, tolerancia_min, i + 1, mejor, mejor_diff)

\* the second loop: the first trip with v.get("salida") == hora_objetivo
PrimeroExacto(viajes, hora_objetivo) ==
    IF \E i \in DOMAIN viajes : viajes[i].salida = hora_objetivo
    THEN CHOOSE i \in DOMAIN viajes :
            /\ viajes[i].salida = hora_objetivo
            /\ \A j \in 1..(i - 1) : viajes[j].salida # hora_objetivo
    ELSE 0

\* the dict esta_lleno_en_hora starts with; << >> is None
ResultadoInicial ==
    [ok |-> FALSE, estado |-> "NO_ENCONTRADO", salida |-> << >>, llegada |-> << >>,
     url |-> << >>]

\* self.page.url once the list of results is on the page
PageUrl == <<"venta.renfe.com">>

\* the dict esta_lleno_en_hora returns: buscar_billetes catches what its
\* steps raise and reports ok False with url None; viajes is what
\* _extraer_trayectos_ida returned
Resultado(busc_ok, viajes, hora_objetivo, tolerancia_min) ==
    IF ~busc_ok THEN ResultadoInicial
    ELSE LET dentro == BuscarMejor(viajes, hora_objetivo, tolerancia_min, 1, 0, 10^9)
             mejor == IF dentro # 0 THEN dentro ELSE PrimeroExacto(viajes, hora_objetivo)
         IN IF mejor = 0 THEN [ResultadoInicial EXCEPT !.url = PageUrl]
            ELSE [ok |-> TRUE, estado |-> viajes[mejor].estado,
                  salida |-> viajes[mejor].salida, llegada |-> viajes[mejor].llegada,
                  url |-> PageUrl]

\* a call of esta_lleno_en_hora about to be made: its arguments, whether
\* buscar_billetes completes, whether the locators of
\* _extraer_trayectos_ida then work (it returns [] when one raises), and
\* the list it returns
CheckerInputs ==
    { [NoCheck EXCEPT !.busc_ok = busc_ok,
                      !.extraer_ok = busc_ok /\ extraer_ok,
                      !.viajes = IF busc_ok /\ extraer_ok THEN viajes ELSE << >>,
                      !.hora_objetivo = hora_objetivo,
                      !.tolerancia_min = tolerancia_min] :
        busc_ok \in BOOLEAN, extraer_ok \in BOOLEAN, viajes \in TrayectosLists,
        hora_objetivo \in HorasObjetivo, tolerancia_min \in Tolerancias }

\* the call of esta_lleno_en_hora
EstaLlenoEnHora ==
    /\ ~check.called
    /\ check' = [check EXCEPT
                   !.called = TRUE,
                   !.resultado = Resultado(check.busc_ok, check.viajes,
                                           check.hora_objetivo, check.tolerancia_min)]
    /\ UNCHANGED <<fileKind, file, lock, crit, convDelete, del_ids, jobs, sweep,
                   notified, rmFailed, env, conv, clock>>

CheckerInit ==
    /\ fileKind = "missing"
    /\ file = << >>
    /\ lock = NoCaller
    /\ crit = [k \in Callers |-> NoCall]
    /\ convDelete = [c \in Chats |-> "END"]
    /\ del_ids = [c \in Chats |-> << >>]
    /\ jobs = JobsAfterArm(0)
    /\ sweep = [s \in Slots |-> IdleSweep]
    /\ notified = {}
    /\ rmFailed = {}
    /\ env = "any"
    /\ conv = [c \in Chats |-> NoConv]
    /\ check \in CheckerInputs
    /\ clock = NoClock

CheckerNext == EstaLlenoEnHora

CheckerSpec == CheckerInit /\ [][CheckerNext]_vars

----------------------------------------------------------------------------

(* The program started on a file written by another version, with a       *)
(* record that has no salida or one that has a field more                  *)

\* ids of such records, one character per element: one with the departure
\* time in it, one without
LegacyIds ==
    { <<"1", "-", "0", "6", "/", "1", "0", "/", "2", "0", "2", "5",
        "-", "0", "6", ":", "3", "4", "-", "V", "-", "A">>,
      <<"1", "-", "0", "6", "/", "1", "0", "/", "2", "0", "2", "5", "-", "V", "-", "A">> }

LegacyRecord(c, id) ==
    [id |-> id, chat_id |-> c, origen |-> Origen, destino |-> Destino,
     fecha |-> Fecha, tolerancia_min |-> ToleranciaMin]

\* a complete record with a key that is no field of MonitoredTrain
ExtraRecord(c) ==
    LET d == MonitoredTrain(c, Origen, Destino, Fecha, Salidas[1])
    IN [k \in DOMAIN d \cup {"nota"} |-> IF k = "nota" THEN "x" ELSE d[k]]

ForeignRecords == { LegacyRecord(1, id) : id \in LegacyIds } \cup {ExtraRecord(1)}

\* the file holds a record of chat 1 without salida or with a field more,
\* and a complete one of chat 2
LegacyInit ==
    /\ fileKind = "list"
    /\ \E d \in ForeignRecords :
          file = <<d, MonitoredTrain(2, Origen, Destino, Fecha, Salidas[1])>>
    /\ lock = NoCaller
    /\ crit = [k \in Callers |-> NoCall]
    /\ convDelete = [c \in Chats |-> "END"]
    /\ del_ids = [c \in Chats |-> << >>]
    /\ jobs = JobsAfterArm(0)
    /\ sweep = [s \in Slots |-> IdleSweep]
    /\ notified = {}
    /\ rmFailed = {}
    /\ env = "any"
    /\ conv = [c \in Chats |-> NoConv]
    /\ check = NoCheck
    /\ clock = NoClock

\* the chats that register watches next to the legacy record
Registrants == {2}

\* registration, /delete and the sweep
LegacyNext ==
    \/ \E c \in Registrants, text \in Texts, viajes \in ViajesLists : ChooseTrain(c, text, viajes)
    \/ \E c \in Registrants, outcome \in SaveOutcomes : AddSave(c, outcome)
    \/ \E c \in Registrants : AddReply(c)
    \/ \E c \in Chats : CmdDelete(c, "sent")
    \/ \E c \in Chats, text \in Texts : ChooseDelete(c, text)
    \/ \E c \in Chats, outcome \in SaveOutcomes : DeleteSave(c, outcome)
    \/ \E c \in Chats : DeleteReply(c, "sent")
    \/ \E c \in Chats : CancelAny(c, "sent")
    \/ PeriodicSchedulerStart
    \/ \E s \in Slots : \E i \in DOMAIN sweep[s].items, outcome \in CheckOutcomes : CheckItem(s, i, outcome)
    \/ \E s \in Slots, outcome \in SendOutcomes : NotifyItem(s, outcome)
    \/ \E s \in Slots : RemoveIdsStart(s)
    \/ \E s \in Slots, outcome \in SaveOutcomes : RemoveIdsSave(s, outcome)
    \/ \E s \in Slots : Rearm(s)

LegacySpec == LegacyInit /\ [][LegacyNext]_vars

----------------------------------------------------------------------------

(* /delete by a user who writes in two chats.  ConversationHandler keeps   *)
(* one conversation for every (chat, user) pair, context.user_data is one  *)
(* dict for the user in all chats: chat 1 is the private chat of user 1,   *)
(* chat 2 a group user 1 is a member of, with the watches registered there *)

Member == 1

DeleteNext ==
    \/ \E c \in Chats, text \in Texts, viajes \in ViajesLists : ChooseTrain(c, text, viajes)
    \/ \E c \in Chats, outcome \in SaveOutcomes : AddSave(c, outcome)
    \/ \E c \in Chats : AddReply(c)
    \/ \E c \in Chats : CmdDeleteBy(Member, c, "sent")
    \/ \E c \in Chats, text \in Texts : ChooseDeleteBy(Member, c, text)
    \/ \E c \in Chats, outcome \in SaveOutcomes : DeleteSave(c, outcome)
    \/ \E c \in Chats, outcome \in SendOutcomes : DeleteReplyBy(Member, c, outcome)
    \/ \E c \in Chats : CancelAnyBy(Member, c, "sent")

DeleteSpec == Init /\ [][DeleteNext]_vars

----------------------------------------------------------------------------

(* The scheduler with its delays.  Time is counted in seconds since the    *)
(* process started; a job armed by run_once(when=timedelta(seconds=n)) is  *)
(* run by the job queue n seconds after the call.                          *)

\* time stops here
MaxTime == 900

\* the clock advances in steps of this many seconds, and the delays drawn
\* are the multiples of it in their window
TickStep == 60

\* random.randint(a, b): both ends included
RandInt(a, b) == { n \in a..b : n % TickStep = 0 }

\* the first delay had schedule_first_check run the job at once
FirstIn_Immediate == {0}

\* first_in = random.randint(3*60, 5*60) in schedule_first_check
FirstIn == RandInt(3 * 60, 5 * 60)

\* next_seconds = random.randint(3 * 60, 5*60) in _periodic_scheduler
NextSeconds == RandInt(3 * 60, 5 * 60)

\* the process has started on a file left by an earlier run, and
\* schedule_first_check has armed the first job
TimedInit ==
    /\ fileKind \in InitialFileKinds
    /\ file = IF fileKind = "list"
              THEN <<MonitoredTrain(1, Origen, Destino, Fecha, Salidas[1])>>
              ELSE << >>
    /\ lock = NoCaller
    /\ crit = [k \in Callers |-> NoCall]
    /\ convDelete = [c \in Chats |-> "END"]
    /\ del_ids = [c \in Chats |-> << >>]
    /\ jobs = JobsAfterArm(0)
    /\ sweep = [s \in Slots |-> IdleSweep]
    /\ notified = {}
    /\ rmFailed = {}
    /\ env = "any"
    /\ conv = [c \in Chats |-> NoConv]
    /\ check = NoCheck
    /\ \E first_in \in FirstIn : clock = [now |-> 0, when |-> first_in, last_end |-> 0]

\* time passes, up to the time the armed job is due
Tick ==
    /\ clock.now + TickStep <= MaxTime
    /\ jobs > 0 => clock.now + TickStep <= clock.when
    /\ clock' = [clock EXCEPT !.now = @ + TickStep]
    /\ UNCHANGED <<fileKind, file, lock, crit, convDelete, del_ids, jobs, sweep,
                   notified, rmFailed, env, conv, check>>

\* the job queue runs the armed job when it is due
TimedSchedulerStart ==
    /\ clock.now = clock.when
    /\ PeriodicSchedulerStart

\* _check_once_and_notify has returned: run_once arms the next job
\* next_seconds from now
TimedRearm(s, next_seconds) ==
    /\ Reschedule(s)
    /\ clock' = [clock EXCEPT !.when = clock.now + next_seconds,
                              !.last_end = clock.now]

TimedNext ==
    \/ Tick
    \/ TimedSchedulerStart
    \/ \E s \in Slots : \E i \in DOMAIN sweep[s].items, outcome \in CheckOutcomes : CheckItem(s, i, outcome)
    \/ \E s \in Slots, outcome \in SendOutcomes : NotifyItem(s, outcome)
    \/ \E s \in Slots : RemoveIdsStart(s)
    \/ \E s \in Slots, outcome \in SaveOutcomes : RemoveIdsSave(s, outcome)
    \/ \E s \in Slots, next_seconds \in NextSeconds : TimedRearm(s, next_seconds)
    \/ \E s \in Slots : CallbackRaised(s)

TimedSpec == TimedInit /\ [][TimedNext]_vars

----------------------------------------------------------------------------

(* /delete of a chat with several watches, while the Store changes.  The   *)
(* process has started on a file left by an earlier run.                   *)

\* the chat that lists and deletes
Lister == 1

\* the watch the chat can add, and the watches the file may hold before:
\* one for a later departure of the same day, one for a later departure of
\* the day before
Added == MonitoredTrain(Lister, Origen, Destino, Fecha, Salidas[1])

Last == MonitoredTrain(Lister, Origen, Destino, Fecha, Salidas[2])

Earlier == MonitoredTrain(Lister, Origen, Destino, Vispera, Salidas[2])

\* the file holds one watch of the chat
ListInit ==
    /\ fileKind = "list"
    /\ \E first \in {Last, Earlier} : file = <<first>>
    /\ lock = NoCaller
    /\ crit = [k \in Callers |-> NoCall]
    /\ convDelete = [c \in Chats |-> "END"]
    /\ del_ids = [c \in Chats |-> << >>]
    /\ jobs = JobsAfterArm(0)
    /\ sweep = [s \in Slots |-> IdleSweep]
    /\ notified = {}
    /\ rmFailed = {}
    /\ env = "any"
    /\ conv = [c \in Chats |-> NoConv]
    /\ check = NoCheck
    /\ clock = NoClock

ListNext ==
    \/ \E text \in Texts, viajes \in ViajesLists : ChooseTrain(Lister, text, viajes)
    \/ \E outcome \in SaveOutcomes : AddSave(Lister, outcome)
    \/ AddReply(Lister)
    \/ CmdDelete(Lister, "sent")
    \/ \E text \in Texts : ChooseDelete(Lister, text)
    \/ \E outcome \in SaveOutcomes : DeleteSave(Lister, outcome)
    \/ DeleteReply(Lister, "sent")
    \/ CancelAny(Lister, "sent")
    \/ PeriodicSchedulerStart
    \/ \E s \in Slots : \E i \in DOMAIN sweep[s].items, outcome \in CheckOutcomes : CheckItem(s, i, outcome)
    \/ \E s \in Slots, outcome \in SendOutcomes : NotifyItem(s, outcome)
    \/ \E s \in Slots : RemoveIdsStart(s)
    \/ \E s \in Slots, outcome \in SaveOutcomes : RemoveIdsSave(s, outcome)
    \/ \E s \in Slots : Rearm(s)

ListSpec == ListInit /\ [][ListNext]_vars

----------------------------------------------------------------------------

(* Properties *)

\* slot s passes its batch to the Store in this step: remove_ids writes and returns
BatchRemoved(s) ==
    /\ sweep[s].pc = "removing"
    /\ sweep'[s].pc = "returned"
    /\ fileKind' = "list"

\* in this step a send_message of the sweep for id returns without raising
DeliveredTo(id) == \E s \in Slots : id \notin sweep[s].sent /\ id \in sweep'[s].sent

C2_AtMostOneNotification ==
    [][\A id \in AllIds : DeliveredTo(id) => id \notin notified]_vars

\* C2 amended: an id is delivered a second availability message without
\* having been registered again only after a batch removal holding it raised
C2_RepeatOnlyAfterFailedRemoval ==
    [][\A id \in AllIds : (DeliveredTo(id) /\ id \in notified) => id \in rmFailed]_vars

\* C2 witness: a sweep has delivered to an id whose earlier removal raised
C2_Witness ==
    \E s \in Slots : \E id \in sweep[s].sent :
        /\ sweep[s].pc \in {"notify", "remove"}
        /\ id \in rmFailed

\* C3 as claimed, for the sweep's own steps: the batch removal of a sweep
\* leaves in the Store every watch whose send_message raised in that sweep
C3_FailedNotifyKeepsWatch ==
    [][\A s \in Slots : \A id \in sweep[s].unsent :
          (sweep[s].pc = "removing" /\ sweep'[s].pc = "returned" /\ id \in StoredIds)
              => id \in StoredIds']_vars

\* C4: a sweep that dispatched checks never raises, and once its loop over
\* the results is over each watch was sent a message exactly if its own
\* result is OK and is queued for removal exactly if its own send returned
C4_SweepIsolation ==
    \A s \in Slots :
        /\ sweep[s].pc = "raised" => sweep[s].items = << >>
        /\ sweep[s].pc \in {"remove", "removing", "returned"} =>
             \A i \in DOMAIN sweep[s].items :
                /\ (sweep[s].items[i].id \in sweep[s].sent \cup sweep[s].unsent)
                      <=> sweep[s].results[i] = "OK"
                /\ (sweep[s].items[i].id \in SeqToSet(sweep[s].to_remove_ids))
                      <=> sweep[s].items[i].id \in sweep[s].sent

\* C4 witness: a sweep has ended in which one check raised and another watch
\* was found OK, notified and queued
C4_Witness ==
    \E s \in Slots : \E i, j \in DOMAIN sweep[s].items :
        /\ sweep[s].pc = "returned"
        /\ sweep[s].results[i] = "RAISED"
        /\ sweep[s].results[j] = "OK"
        /\ sweep[s].items[j].id \in sweep[s].sent

\* C5 as claimed, for the sweep's own steps: the batch removal of a sweep
\* leaves in the Store every watch whose check raised in that sweep
C5_FailedCheckKeepsWatch ==
    [][\A s \in Slots : \A i \in DOMAIN sweep[s].items :
          (/\ sweep[s].results[i] = "RAISED"
           /\ sweep[s].pc = "removing" /\ sweep'[s].pc = "returned"
           /\ sweep[s].items[i].id \in StoredIds)
              => sweep[s].items[i].id \in StoredIds']_vars

\* C6: the file never holds two records with the same id
C6_UniqueIds ==
    \A i, j \in DOMAIN Load : Load[i].id = Load[j].id => i = j

\* C6 witness: Store.add has returned from replacing a record of the same
\* id, and that id is in the Store
C6_Witness ==
    \E c \in Chats :
        /\ crit[Handler(c)].op = "added"
        /\ crit[Handler(c)].removed = 1
        /\ crit[Handler(c)].item[1].id \in StoredIds

\* a handler's Store call writes and returns in this step
Wrote(k) == crit[k].op \in {"add", "rm"} /\ crit'[k].op \in {"added", "removed"}

\* C7: a caller inside `with STORE_LOCK` holds the lock and works on the
\* list that is in the file, so each write is the call applied to the Store
\* as it is at that moment
C7_StoreCallsAtomic ==
    /\ [](\A k \in Callers :
            crit[k].op \in {"add", "rm"} => (lock = k /\ crit[k].data = Load))
    /\ [][\A k \in Callers :
            Wrote(k) =>
               file' = IF crit[k].op = "add"
                       THEN AddTo(Load, crit[k].item[1])
                       ELSE RemoveFrom(Load, crit[k].ids)]_vars

\* C7 witness: the sweep is at its remove_ids call while a handler is inside
\* Store.add
C7_Witness ==
    \E c \in Chats, s \in Slots :
        /\ crit[Handler(c)].op = "add"
        /\ sweep[s].pc = "remove"

\* C8: pending jobs and running callbacks are together at most one, and a
\* job is armed only by a callback whose sweep has returned
C8_OneSweepAtATime ==
    /\ [](jobs + Cardinality(Running) <= 1)
    /\ [][jobs' > jobs =>
            \E s \in Slots : sweep[s].pc = "returned" /\ sweep'[s].pc = "idle"]_vars

\* C8 witness: a sweep over a non-empty Store has returned and the next job
\* is not armed yet
C8_Witness ==
    \E s \in Slots :
        /\ sweep[s].pc = "returned"
        /\ sweep[s].items # << >>
        /\ jobs = 0

\* C9 as claimed: whenever no callback is running a job is pending
C9_AlwaysRescheduled ==
    Running = {} => jobs >= 1

\* a send_message for Watched has returned in the sweep that is running
Delivered == \E s \in Slots : Watched \in sweep[s].sent

\* C10 as claimed: once every check of a stored watch finds it OK and every
\* send_message for it returns, it is eventually out of the Store
C10_EventuallyRemoved ==
    (env # "any" /\ Watched \in StoredIds) ~> (Watched \notin StoredIds)

\* C10 amended: once every check of a stored watch finds it OK and every
\* send_message for it returns, the watch is eventually delivered its message
\* unless it leaves the Store first, and once the writes of remove_ids also
\* succeed it is eventually out of the Store
C10_EventuallyNotifiedAndRemovedIfWritten ==
    /\ (env # "any" /\ Watched \in StoredIds) ~> (Delivered \/ Watched \notin StoredIds)
    /\ (env = "writes" /\ Watched \in StoredIds) ~> (Watched \notin StoredIds)

\* C10 witness: in the settled environment the sweep has removed Watched
\* after delivering its message
C10_Witness ==
    \E s \in Slots :
        /\ env = "writes"
        /\ sweep[s].pc = "returned"
        /\ Watched \in sweep[s].sent
        /\ Watched \notin StoredIds

\* the sweep of slot s ends in this step
SweepEnds(s) == sweep[s].pc # "returned" /\ sweep'[s].pc = "returned"

\* remove_ids of slot s returns in this step with its filtered list on disk
BatchWritten(s) ==
    /\ BatchRemoved(s)
    /\ file' = RemoveFrom(crit[Job(s)].data, crit[Job(s)].ids)

\* C11 as claimed: when a sweep ends no watch it delivered a message to is
\* in the Store
C11_NotifiedRemovedBySweepEnd ==
    [][\A s \in Slots : SweepEnds(s) => sweep'[s].sent \cap StoredIds' = {}]_vars

\* C11 amended: the sweep calls remove_ids exactly when some send_message
\* returned, once, with exactly the ids delivered; when that call writes, no
\* delivered watch is in the Store as the sweep ends
C11_NotifiedRemovedWhenWritten ==
    /\ [](\A s \in Slots :
            /\ sweep[s].pc \in {"remove", "removing"} =>
                 /\ sweep[s].sent # {}
                 /\ SeqToSet(sweep[s].to_remove_ids) = sweep[s].sent
                 /\ Len(sweep[s].to_remove_ids) = Cardinality(sweep[s].sent)
            /\ sweep[s].pc = "removing" => crit[Job(s)].ids = sweep[s].to_remove_ids)
    /\ [][\A s \in Slots : SweepEnds(s) =>
            /\ sweep[s].pc \in {"idle", "gather", "notify"} => sweep'[s].sent = {}
            /\ BatchWritten(s) => sweep'[s].sent \cap StoredIds' = {}]_vars

\* C11 witness: a sweep has ended after delivering to two watches and
\* removing both in its one remove_ids call
C11_Witness ==
    \E s \in Slots :
        /\ sweep[s].pc = "returned"
        /\ Cardinality(sweep[s].sent) = 2
        /\ sweep[s].sent \cap StoredIds = {}
        /\ rmFailed = {}

C13_EmptySweepNoOp ==
    /\ [](\A s \in Slots : sweep[s].items = << >> =>
            /\ sweep[s].pc \in {"idle", "returned", "raised"}
            /\ sweep[s].results = << >>
            /\ sweep[s].sent = {} /\ sweep[s].unsent = {}
            /\ sweep[s].to_remove_ids = << >>
            /\ crit[Job(s)].op = "none"
            /\ lock # Job(s))
    /\ [][\A s \in Slots :
            /\ (sweep[s].pc = "idle" /\ sweep'[s].pc # "idle" /\ ~LoadIsScalar /\ Load = << >>)
                  => /\ sweep'[s].pc = "returned"
                     /\ sweep'[s].items = << >>
                     /\ UNCHANGED <<fileKind, file, notified>>
            /\ (sweep[s].pc = "returned" /\ sweep[s].items = << >> /\ sweep'[s].pc = "idle")
                  => /\ UNCHANGED <<fileKind, file>>
                     /\ jobs' = jobs + 1]_vars

\* C13 witness: a sweep has returned from a Store that earlier writes left
\* as the empty list
C13_Witness ==
    \E s \in Slots :
        /\ sweep[s].pc = "returned"
        /\ sweep[s].items = << >>
        /\ fileKind = "list"
        /\ file = << >>

\* some check dispatched by the sweep of slot s has not ended
ChecksPending(s) == \E i \in DOMAIN sweep[s].results : sweep[s].results[i] = "PENDING"

\* C14: while a check of the sweep has not ended the sweep is in gather: it
\* has sent nothing, queued nothing, made no Store call and armed no job;
\* and every other check that has not ended can still end
C14_NoActionBeforeAllChecks ==
    \A s \in Slots :
        /\ ChecksPending(s) =>
             /\ sweep[s].pc = "gather"
             /\ sweep[s].sent = {} /\ sweep[s].unsent = {}
             /\ sweep[s].to_remove_ids = << >>
             /\ crit[Job(s)].op = "none"
             /\ jobs = 0
             /\ \A j \in DOMAIN sweep[s].results :
                    sweep[s].results[j] = "PENDING" => ENABLED CheckItem(s, j, "OK")
        /\ sweep[s].pc \in {"notify", "remove", "removing"} => ~ChecksPending(s)

\* C14 witness: one check of a sweep has ended with OK while another has
\* not ended, and nothing has been sent
C14_Witness ==
    \E s \in Slots : \E i, j \in DOMAIN sweep[s].results :
        /\ sweep[s].pc = "gather"
        /\ sweep[s].results[i] = "OK"
        /\ sweep[s].results[j] = "PENDING"

\* chat c gets a new reply of choose_train in this step
ChooseTrainReplies(c) ==
    /\ conv[c].state = "CHOOSE_TRAIN"
    /\ conv'[c] # conv[c]
    /\ conv'[c].reply \in {"not_a_number", "no_list", "out_of_range", "already_available"}

\* the handler of chat c enters Store.add in this step
AddStarted(c) == crit[Handler(c)].op = "none" /\ crit'[Handler(c)].op = "add"

\* Store.add of the handler of chat c writes and returns in this step
AddReturned(c) == crit[Handler(c)].op = "add" /\ crit'[Handler(c)].op = "added"

\* C15: choosing a listed trip whose estado is OK gives the reply
\* "already_available" and any other estado goes to Store.add; a reply of
\* choose_train other than "added" leaves the file and the lock as they
\* are; a Store.add is entered only for a listed trip that is not OK, with
\* the watch of the collected data; and when Store.add returns that watch is
\* in the file
C15_AvailableRefusedElseCreated ==
    /\ [](\A c \in Chats : \A text \in Texts :
            LET viajes == conv[c].viajes
                branch == ChooseTrainBranch(text, viajes)
            IN (conv[c].state = "CHOOSE_TRAIN" /\ IsNumber(text)
                  /\ IntOf(text) \in DOMAIN viajes) =>
                 /\ viajes[IntOf(text)].estado = "OK" => branch = "already_available"
                 /\ viajes[IntOf(text)].estado # "OK" => branch = "store")
    /\ [][\A c \in Chats :
            /\ ChooseTrainReplies(c) => UNCHANGED <<fileKind, file, lock, crit>>
            /\ AddStarted(c) =>
                 /\ conv[c].state = "CHOOSE_TRAIN"
                 /\ \E i \in DOMAIN conv[c].viajes :
                       /\ conv[c].viajes[i].estado # "OK"
                       /\ crit'[Handler(c)].item[1] =
                             MonitoredTrain(c, conv[c].origen, conv[c].destino,
                                            conv[c].fecha, conv[c].viajes[i].salida)
            /\ AddReturned(c) =>
                 /\ fileKind' = "list"
                 /\ \E i \in DOMAIN file' : file'[i] = crit[Handler(c)].item[1]
            /\ (conv'[c] # conv[c] /\ conv'[c].reply = "added") =>
                 crit[Handler(c)].op = "added"]_vars

\* C15 witness: one chat was told its trip is already available and has no
\* watch, the other chose a trip that is not OK and its watch is stored
C15_Witness ==
    /\ conv[1].reply = "already_available"
    /\ conv[2].reply = "added"
    /\ \A i \in DOMAIN Load : Load[i].chat_id = 2
    /\ Len(Load) = 1

\* a text of the dd/mm/yyyy shape that names a day of the calendar
ValidFecha(f) == MatchesDateRe(f) /\ StrptimeOk(f)

\* the watches written or about to be written by a handler
PersistedOrInFlight ==
    (IF fileKind = "list" THEN SeqToSet(file) ELSE {})
        \cup UNION { SeqToSet(crit[Handler(c)].item) : c \in Chats }

\* C16: every watch in the file or handed to Store.add has a fecha of the
\* dd/mm/yyyy shape that is a calendar date, and a departure time; the list
\* a user chooses from holds only trips with a departure time and goes with
\* such a fecha; and the answer to a date text that is not one leaves the
\* conversation at the date question and the Store as it is
C16_InvalidNeverPersisted ==
    /\ [](/\ \A item \in PersistedOrInFlight :
                ValidFecha(item.fecha) /\ item.salida # ""
          /\ \A c \in Chats : conv[c].state = "CHOOSE_TRAIN" =>
                /\ ValidFecha(conv[c].fecha)
                /\ \A i \in DOMAIN conv[c].viajes : conv[c].viajes[i].salida # "")
    /\ [][\A c \in Chats :
            (conv[c].state = "ASK_DATE" /\ conv'[c] # conv[c]
               /\ conv'[c].state # "CHOOSE_TRAIN") =>
                /\ UNCHANGED <<fileKind, file, lock, crit>>
                /\ conv'[c].reply = "invalid_date" => conv'[c].state = "ASK_DATE"]_vars

\* C16 witness: one chat was told its date is invalid and is asked again,
\* having no watch, while the other chooses from a list out of which the row
\* without hours was dropped
C16_Witness ==
    /\ conv[1].reply = "invalid_date"
    /\ conv[1].state = "ASK_DATE"
    /\ conv[2].state = "CHOOSE_TRAIN"
    /\ Len(conv[2].viajes) = 1
    /\ fileKind = "list" => file = << >>

\* the handler of chat c is inside Store.remove_ids with a single id
Deregistering(c) == crit[Handler(c)].op = "rm" /\ Len(crit[Handler(c)].ids) = 1

\* C17: every Store.remove_ids call of choose_delete returns (it never
\* raises); it returns 1 when the watch was in the Store and 0 when it had
\* been removed before, and in that case the Store is the same afterwards
C17_DeregisterIdempotent ==
    [][\A c \in Chats :
          Deregistering(c) =>
            LET call == crit[Handler(c)]
                present == call.ids[1] \in IdsOf(call.data)
            IN /\ crit'[Handler(c)].op = "removed"
               /\ crit'[Handler(c)].removed = (IF present THEN 1 ELSE 0)
               /\ ~present => Load' = Load]_vars

\* Store.remove_ids of caller k returns in this step
RemoveIdsReturns(k) ==
    /\ crit[k].op = "rm"
    /\ IF k[1] = "job" THEN sweep'[k[2]].removed # << >>
                       ELSE crit'[k].op = "removed"

\* the value it returns
RemoveIdsResult(k) ==
    IF k[1] = "job" THEN sweep'[k[2]].removed[1] ELSE crit'[k].removed

\* C18: when Store.remove_ids(ids) returns, its value is the number of
\* records it found in the Store with an id in ids, no record with such an
\* id is in the file, every other record it found is still there, and
\* nothing else is
C18_RemoveManyCountAndFrame ==
    [][\A k \in Callers :
          RemoveIdsReturns(k) =>
            LET data == crit[k].data
                ids == SeqToSet(crit[k].ids)
                hit == { i \in DOMAIN data : data[i].id \in ids }
            IN /\ RemoveIdsResult(k) = Cardinality(hit)
               /\ fileKind' = "list"
               /\ IdsOf(file') \cap ids = {}
               /\ \A i \in DOMAIN data \ hit : \E j \in DOMAIN file' : file'[j] = data[i]
               /\ Len(file') = Len(data) - Cardinality(hit)]_vars

\* C18 witness: a sweep's batch removal of two ids has returned 1, one of the
\* two watches having been deleted by its chat in the meantime, and the
\* file is empty
C18_Witness ==
    \E s \in Slots :
        /\ sweep[s].pc = "returned"
        /\ Len(sweep[s].to_remove_ids) = 2
        /\ sweep[s].removed = <<1>>
        /\ fileKind = "list" /\ file = << >>

\* C19: a Store.remove_ids call made by choose_delete for chat c that
\* returns leaves in the file every record it found of another chat
C19_OnlyOwnWatchesRemoved ==
    [][\A c \in Chats :
          RemoveIdsReturns(Handler(c)) =>
            LET data == crit[Handler(c)].data
            IN \A i \in DOMAIN data :
                  data[i].chat_id # c => \E j \in DOMAIN file' : file'[j] = data[i]]_vars

\* the trips of the last call whose departure is within the tolerance
Dentro ==
    { i \in DOMAIN check.viajes :
        MinDiff(check.viajes[i].salida, check.hora_objetivo) <= check.tolerancia_min }

\* the dict of the last call reports trip i
Reports(i) ==
    /\ check.resultado.ok
    /\ check.resultado.salida = check.viajes[i].salida
    /\ check.resultado.llegada = check.viajes[i].llegada
    /\ check.resultado.estado = check.viajes[i].estado

\* C20: after a completed search the returned dict reports a trip within
\* the tolerance whose departure is nearest in minutes to hora_objetivo when
\* there is one; else the first trip whose departure text equals
\* hora_objetivo; else it is NO_ENCONTRADO.  For 08:00 with tolerance 2 and
\* the trips 07:59 LLENO, 08:10 OK it reports the 07:59 trip, LLENO
C20_CheckerMatch ==
    (check.called /\ check.busc_ok) =>
        /\ Dentro # {} =>
              \E i \in Dentro :
                 /\ \A j \in Dentro :
                       MinDiff(check.viajes[i].salida, check.hora_objetivo)
                          <= MinDiff(check.viajes[j].salida, check.hora_objetivo)
                 /\ Reports(i)
        /\ (Dentro = {} /\ PrimeroExacto(check.viajes, check.hora_objetivo) # 0) =>
              /\ Reports(PrimeroExacto(check.viajes, check.hora_objetivo))
              /\ \A j \in DOMAIN check.viajes :
                    check.viajes[j].salida = check.hora_objetivo
                       => PrimeroExacto(check.viajes, check.hora_objetivo) <= j
        /\ (Dentro = {} /\ \A j \in DOMAIN check.viajes :
                              check.viajes[j].salida # check.hora_objetivo) =>
              /\ ~check.resultado.ok
              /\ check.resultado.estado = "NO_ENCONTRADO"
        /\ ( /\ check.hora_objetivo = Hora("0", "8", "0", "0")
             /\ check.tolerancia_min = 2
             /\ check.viajes = <<Trayecto(Hora("0", "7", "5", "9"), "LLENO"),
                                 Trayecto(Hora("0", "8", "1", "0"), "OK")>> ) =>
              /\ check.resultado.salida = Hora("0", "7", "5", "9")
              /\ check.resultado.estado = "LLENO"
              /\ MinDiff(Hora("0", "7", "5", "9"), check.hora_objetivo) = 1
              /\ MinDiff(Hora("0", "8", "1", "0"), check.hora_objetivo) = 10

\* C20 witness: the call of the example, 08:00 with tolerance 2 over the
\* trips 07:59 LLENO and 08:10 OK, has returned the 07:59 trip
C20_Witness ==
    /\ check.called /\ check.busc_ok
    /\ check.hora_objetivo = Hora("0", "8", "0", "0")
    /\ check.tolerancia_min = 2
    /\ check.viajes = <<Trayecto(Hora("0", "7", "5", "9"), "LLENO"),
                        Trayecto(Hora("0", "8", "1", "0"), "OK")>>
    /\ check.resultado.ok
    /\ check.resultado.estado = "LLENO"

\* the search of the last call was not completed, or the extraction of the
\* trips raised
CheckerFailed == ~check.busc_ok \/ ~check.extraer_ok

\* the dicts returned when the search and the extraction worked and no trip
\* matched
NoMatchResults ==
    { Resultado(TRUE, viajes, check.hora_objetivo, check.tolerancia_min) :
        viajes \in { v \in TrayectosLists :
                       ~Resultado(TRUE, v, check.hora_objetivo, check.tolerancia_min).ok } }

\* C21: a call of esta_lleno_en_hora in which the search or the extraction
\* failed does not return a dict that a successful search without a
\* matching trip returns
C21_FailureDistinguishable ==
    (check.called /\ CheckerFailed) => check.resultado \notin NoMatchResults

\* the salida a record without one is to be given: the time in its id, else 00:00
ExpectedSalida(id) ==
    IF id = <<"1", "-", "0", "6", "/", "1", "0", "/", "2", "0", "2", "5",
              "-", "0", "6", ":", "3", "4", "-", "V", "-", "A">>
    THEN <<"0", "6", ":", "3", "4">>
    ELSE <<"0", "0", ":", "0", "0">>

\* the sweep's read gave every record of the file, those without salida
\* with the expected one
ListRepairs ==
    \A s \in Slots :
        sweep[s].pc = "gather" =>
            \A i \in DOMAIN sweep[s].items :
                /\ "salida" \in DOMAIN sweep[s].items[i]
                /\ sweep[s].items[i].id \in LegacyIds
                      => sweep[s].items[i].salida = ExpectedSalida(sweep[s].items[i].id)

\* /delete of a chat with records in the file lists them
ListForLoads ==
    \A c \in Chats :
        (/\ HandlerIdle(c) /\ convDelete[c] = "END" /\ ~LoadIsScalar
         /\ \E i \in DOMAIN Load : Load[i].chat_id = c
         /\ \A i \in DOMAIN Load : Load[i].chat_id = c => ~HasExtraField(Load[i]))
        => ENABLED (CmdDelete(c, "sent") /\ convDelete'[c] = "DEL_CHOOSE")

\* C22: a record of the file that has no salida is loaded all the same, by
\* the sweep's read and by list_for_chat, with the time found in its id or
\* 00:00 as its salida
C22_LegacyRecordLoaded == ListRepairs /\ ListForLoads

\* the file is missing or is not JSON
MissingOrCorrupt == fileKind \in {"missing", "garbage"}

\* C23: while the file is missing or does not parse, the sweep's read,
\* list_for_chat, Store.add and Store.remove_ids read the empty list and
\* none of them raises: a sweep that starts returns at once, /delete has
\* nothing to list, a Store call that starts has loaded [], and a
\* registration can enter Store.add
C23_MissingOrCorruptReadsEmpty ==
    /\ [](MissingOrCorrupt =>
            /\ ListAllItems = << >>
            /\ \A c \in Chats : ListForChat(c) = << >> /\ ~ListForChatRaises(c)
            /\ \A c \in Chats :
                  (HandlerIdle(c) /\ StoreLockFree) =>
                     ENABLED (\E text \in Texts, viajes \in ViajesLists :
                                 ChooseTrain(c, text, viajes) /\ AddStarted(c)))
    /\ [][MissingOrCorrupt =>
            /\ \A s \in Slots :
                  (sweep[s].pc = "idle" /\ sweep'[s].pc # "idle")
                     => sweep'[s].pc = "returned" /\ sweep'[s].items = << >>
            /\ \A k \in Callers :
                  (crit[k].op = "none" /\ crit'[k].op \in {"add", "rm"})
                     => crit'[k].data = << >>
            /\ \A c \in Chats :
                  convDelete[c] = "END" => convDelete'[c] = "END"]_vars

\* C23 witness: the file does not parse, a sweep that read it has returned
\* without items and a handler is in Store.add with the empty list loaded
C23_Witness ==
    /\ fileKind = "garbage"
    /\ \E s \in Slots : sweep[s].pc = "returned" /\ sweep[s].items = << >>
    /\ \E c \in Chats : crit[Handler(c)].op = "add" /\ crit[Handler(c)].data = << >>

\* caller k leaves Store._save in this step, written or not
SaveEnds(k) == crit[k].op \in {"add", "rm"} /\ crit'[k].op \notin {"add", "rm"}

\* the list caller k's _save is to write
SaveData(k) ==
    IF crit[k].op = "add" THEN AddTo(crit[k].data, crit[k].item[1])
    ELSE RemoveFrom(crit[k].data, crit[k].ids)

\* C24: whatever a Store._save does, the collection a reader loads after it
\* is the one of before the write or the one the write was to store
C24_ReadsSeeWholeCollection ==
    [][\A k \in Callers : SaveEnds(k) => Load' \in {Load, SaveData(k)}]_vars

\* the write of caller k's _save raises in this step: the Store call of a
\* handler does not return, the sweep's remove_ids has no value
WriteFails(k) ==
    /\ SaveEnds(k)
    /\ IF k[1] = "job" THEN sweep'[k[2]].removed = << >> ELSE crit'[k].op = "none"

\* the exception of the write leaves the handler that made the Store call:
\* the handler ends there, without its reply
Propagates(k) == WriteFails(k) /\ k[1] = "handler"

\* C25: a write of Store.add or Store.remove_ids that fails leaves the file
\* as it was, does not raise out of the caller, and the lock is free
\* afterwards
C25_FailedWriteContained ==
    [][\A k \in Callers :
          WriteFails(k) =>
             /\ UNCHANGED <<fileKind, file>>
             /\ ~Propagates(k)
             /\ lock' = NoCaller]_vars

\* C26: when the write of a sweep's batch removal fails the sweep goes on
\* to its summary and returns, and every watch of the batch that was in the
\* Store is still there for the next sweep
C26_FailedBatchKeepsNotified ==
    [][\A s \in Slots :
          WriteFails(Job(s)) =>
             /\ sweep'[s].pc = "returned"
             /\ \A id \in SeqToSet(crit[Job(s)].ids) \cap StoredIds : id \in StoredIds']_vars

\* the sweep of slot s ends in this step after a send_message of its loop raised
EndsWithFailedNotify(s) == SweepEnds(s) /\ sweep'[s].unsent # {}

\* every watch of slot s found OK had its send_message called
AllAvailableAttempted(sw) ==
    \A i \in DOMAIN sw.items :
        sw.results[i] = "OK" => sw.items[i].id \in sw.sent \cup sw.unsent

\* C27 as claimed: a sweep in which a send_message raised still calls
\* send_message for every other watch found OK, and when it ends no watch
\* it delivered a message to is in the Store
C27_NotifyFailureIsolated ==
    [][\A s \in Slots : EndsWithFailedNotify(s) =>
          /\ AllAvailableAttempted(sweep'[s])
          /\ sweep'[s].sent \cap StoredIds' = {}]_vars

\* C27 amended: a sweep in which a send_message raised still calls
\* send_message for every other watch found OK, hands exactly the delivered
\* ids to remove_ids, and when that call writes no delivered watch is in the
\* Store as the sweep ends
C27_NotifyFailureIsolatedWhenWritten ==
    /\ [](\A s \in Slots : sweep[s].unsent # {} =>
            /\ sweep[s].pc \in {"remove", "removing", "returned"} =>
                 AllAvailableAttempted(sweep[s])
            /\ sweep[s].pc \in {"remove", "removing"} =>
                 SeqToSet(sweep[s].to_remove_ids) = sweep[s].sent
            /\ sweep[s].pc = "removing" => crit[Job(s)].ids = sweep[s].to_remove_ids)
    /\ [][\A s \in Slots : EndsWithFailedNotify(s) =>
            /\ sweep'[s].sent # {} => sweep[s].pc \in {"remove", "removing"}
            /\ BatchWritten(s) => sweep'[s].sent \cap StoredIds' = {}]_vars

\* C27 witness: a sweep has ended in which the send_message for one watch
\* raised, a later one for another watch returned, and that watch is removed
C27_Witness ==
    \E s \in Slots : \E i, j \in DOMAIN sweep[s].items :
        /\ sweep[s].pc = "returned"
        /\ i < j
        /\ sweep[s].items[i].id \in sweep[s].unsent
        /\ sweep[s].items[j].id \in sweep[s].sent
        /\ sweep[s].removed = <<1>>
        /\ sweep[s].items[j].id \notin StoredIds
        /\ sweep[s].items[i].id \in StoredIds

\* a sweep starts in this step
SweepStarts(s) == sweep[s].pc = "idle" /\ sweep'[s].pc # "idle"

RecordsOf(data, id) == { data[i] : i \in { j \in DOMAIN data : data[j].id = id } }

\* C29: a record that is in the Store before and after a step is the same
\* record, field for field, unless the step is a Store.add of its own id
C29_RecordsNeverChange ==
    [][\A id \in StoredIds \cap StoredIds' :
          \/ RecordsOf(Load', id) = RecordsOf(Load, id)
          \/ \E c \in Chats : AddReturned(c) /\ crit[Handler(c)].item.id = id]_vars

\* C29 witness: a sweep has removed a watch, another chat has registered
\* one, and the record written without salida is still stored without it
C29_Witness ==
    /\ \E s \in Slots : sweep[s].removed = <<1>>
    /\ \E c \in Chats : crit[Handler(c)].op = "added"
    /\ \E i \in DOMAIN Load : "salida" \notin DOMAIN Load[i]

\* C30: stop, sent in a state of the add conversation or in DEL_CHOOSE,
\* ends that conversation, leaves nothing of either conversation in
\* user_data, and leaves the file as it was
C30_StopEndsConversation ==
    [][\A c \in Chats : StopSent(c) =>
          /\ conv[c].state # "END" => conv'[c].state = "END"
          /\ convDelete[c] = "DEL_CHOOSE" => convDelete'[c] = "END"
          /\ conv'[c].origen = NoConv.origen /\ conv'[c].destino = NoConv.destino
          /\ conv'[c].fecha = NoConv.fecha /\ conv'[c].viajes = NoConv.viajes
          /\ del_ids'[c] = << >>
          /\ UNCHANGED <<fileKind, file>>]_vars

\* C31: a record with a field more makes neither read fail: the sweep's
\* read still gives every other record of the file, and /delete of a chat
\* whose records all have their salida lists them
C31_ExtraFieldsTolerated ==
    /\ \A i \in DOMAIN Load :
          ~HasExtraField(Load[i]) =>
              \E j \in DOMAIN ListAllItems : ListAllItems[j] = FillSalida(Load[i])
    /\ \A c \in Chats :
          (/\ HandlerIdle(c) /\ convDelete[c] = "END" /\ ~LoadIsScalar
           /\ \E i \in DOMAIN Load : Load[i].chat_id = c
           /\ \A i \in DOMAIN Load :
                 Load[i].chat_id = c => RequiredFields \subseteq DOMAIN Load[i])
          => ENABLED (CmdDelete(c, "sent") /\ convDelete'[c] = "DEL_CHOOSE")

\* the fields an id is derived from
WatchKey(d) == <<d.chat_id, d.fecha, d.salida, d.origen, d.destino>>

\* Store.add of chat c returns in this step with its list on disk
AddWritten(c) ==
    /\ AddReturned(c)
    /\ Load' = AddTo(crit[Handler(c)].data, crit[Handler(c)].item[1])

\* C32: a registration takes out of the Store no watch that differs from the
\* new one in owner, date, departure time, origin or destination
C32_DifferentWatchKept ==
    [][\A c \in Chats : AddWritten(c) =>
          \A i \in DOMAIN Load :
              WatchKey(Load[i]) # WatchKey(crit[Handler(c)].item[1])
                 => Load[i] \in SeqToSet(Load')]_vars

\* the ids of the snapshot the sweep of slot s took
Snapshot(s) == IdsOf(sweep[s].items)

\* C33: a sweep sends to and queues only watches of its snapshot, a handler
\* can call Store.add while the sweep waits for its checks, and the sweep's
\* batch removal leaves in the Store every watch that is not in its snapshot
C33_LateWatchUntouched ==
    /\ [](\A s \in Slots :
            /\ sweep[s].sent \cup sweep[s].unsent \subseteq Snapshot(s)
            /\ SeqToSet(sweep[s].to_remove_ids) \subseteq Snapshot(s)
            /\ (sweep[s].pc = "gather" /\ ~LoadIsScalar) =>
                  \A c \in Chats : HandlerIdle(c) =>
                     ENABLED (/\ ChooseTrain(c, "1", <<Viaje(Salidas[1], "LLENO")>>)
                              /\ crit'[Handler(c)].op = "add"))
    /\ [][\A s \in Slots :
            (sweep[s].pc = "removing" /\ sweep'[s].pc = "returned") =>
               \A id \in StoredIds \ Snapshot(s) : id \in StoredIds']_vars

\* parse_sort_key of the stored watch with this id
SortKey(id) ==
    LET d == CHOOSE x \in SeqToSet(Load) : x.id = id
    IN <<Ymd(d.fecha), Hm(d.salida)>>

\* cmd_delete shows the list of chat c in this step
ListShown(c) == convDelete[c] = "END" /\ convDelete'[c] = "DEL_CHOOSE"

\* choose_delete of chat c gets text as the answer to the list
Chosen(c, text) == convDelete[c] = "DEL_CHOOSE" /\ ChooseDelete(c, text)

\* text is the number of a line of the list shown to chat c
InRange(c, text) == IsNumber(text) /\ IntOf(text) \in 1..Len(del_ids[c])

\* C34: the list /delete shows holds the chat's stored watches once each,
\* by day and then by departure; an answer that is no number of a line
\* changes nothing and leaves the conversation waiting; an answer that is
\* one makes remove_ids be called with the id shown on that line, and when
\* that call returns exactly the record with that id is gone
C34_DeleteByShownIndex ==
    [][\A c \in Chats :
          /\ ListShown(c) =>
               /\ SeqToSet(del_ids'[c]) = { d.id : d \in { x \in SeqToSet(Load) : x.chat_id = c } }
               /\ \A i, j \in DOMAIN del_ids'[c] :
                     i < j =>
                        /\ del_ids'[c][i] # del_ids'[c][j]
                        /\ \/ SortKey(del_ids'[c][i])[1] < SortKey(del_ids'[c][j])[1]
                           \/ /\ SortKey(del_ids'[c][i])[1] = SortKey(del_ids'[c][j])[1]
                              /\ SortKey(del_ids'[c][i])[2] <= SortKey(del_ids'[c][j])[2]
          /\ \A text \in Texts :
               /\ (Chosen(c, text) /\ ~InRange(c, text)) =>
                     /\ UNCHANGED <<fileKind, file, lock, crit, del_ids>>
                     /\ convDelete'[c] = "DEL_CHOOSE"
               /\ (Chosen(c, text) /\ InRange(c, text)) =>
                     /\ crit'[Handler(c)].op = "rm"
                     /\ crit'[Handler(c)].ids = <<del_ids[c][IntOf(text)]>>
                     /\ UNCHANGED <<fileKind, file, del_ids>>
          /\ (RemoveIdsReturns(Handler(c)) /\ Len(crit[Handler(c)].ids) = 1) =>
               /\ crit[Handler(c)].ids[1] \in SeqToSet(del_ids[c])
               /\ Load' = SelectSeq(Load, LAMBDA d : d.id # crit[Handler(c)].ids[1])]_vars

\* C34 witness: the chat was shown the watch it added second on line 1 and
\* the older one on line 2, a sweep then removed the watch of line 1, and
\* the answer 2 has removed the watch shown on line 2
C34_Witness ==
    /\ crit[Handler(Lister)].op = "removed"
    /\ crit[Handler(Lister)].removed = 1
    /\ del_ids[Lister] = <<Added.id, Last.id>>
    /\ crit[Handler(Lister)].ids = <<Last.id>>
    /\ StoredIds = {}
    /\ \E s \in Slots : sweep[s].removed = <<1>> /\ sweep[s].to_remove_ids = <<Added.id>>

\* choose_delete of chat c has had remove_ids return 1 for id and has not
\* yet sent its reply
JustDeregistered(c, id) ==
    /\ crit[Handler(c)].op = "removed"
    /\ crit[Handler(c)].removed >= 1
    /\ crit[Handler(c)].ids = <<id>>

\* C35: no sweep delivers the availability message for a watch that
\* choose_delete has just removed from the Store
C35_NoNotifyAfterDeregister ==
    [][\A c \in Chats : \A id \in AllIds :
          JustDeregistered(c, id) => ~DeliveredTo(id)]_vars

====
